---- MODULE Spec2Model ----
(***************************************************************************)
(* Model of the MySQL -> PostgreSQL dump converter.                        *)
(*                                                                         *)
(*   src/extract_and_split_inserts.py  InsertExtractorAndSplitter          *)
(*       convert_insert_line  (Line Rewriter)                              *)
(*       process_file         (Chunk Writer)                               *)
(*   src/mysql_to_pg_converter.py      DDLConverter                        *)
(*       _split_by_comma      (Clause Splitter)                            *)
(*       convert_create_table, _convert_column_definition, _process_schema *)
(*                                                                         *)
(* Text is modelled as a sequence of characters, a character being a       *)
(* one-character string.  Two characters cannot be written as a string     *)
(* literal and are named: BackTick (U+0060) and EAcute (U+00E9, a letter   *)
(* that takes two bytes in UTF-8).                                         *)
(***************************************************************************)
EXTENDS Integers, Sequences, FiniteSets, TLC

VARIABLES
    \* ---- Line Rewriter as a pure function: input line and result
    rw_line, rw_result,
    \* ---- Chunk Writer (process_file)
    chunk_size_bytes,    \* self.chunk_size_bytes, the byte budget
    current_chunk_size,  \* self.current_chunk_size
    chunk_number,        \* self.chunk_number
    total_inserts,       \* self.total_inserts
    output_handle,       \* [file |-> number in the name of the handle's file, closed |-> BOOLEAN]
    files,               \* the output directory: the files in creation order,
                         \* each [number |-> n, content |-> what was written]
    input,               \* the lines read from the input file so far
    decode_warnings,     \* the warnings of line 110 printed so far
    pc,                  \* position of process_file
    \* ---- Clause Splitter as a pure function: input text and result
    sp_text, sp_items,
    \* ---- Schema Assembler (DDLConverter, _process_schema)
    schema_input,        \* the lines of the input file
    line_num,            \* line_num: the number of lines read
    buffer,              \* buffer: the lines of the statement being collected
    in_statement,        \* in_statement
    pg_output,           \* pg_output: the converted statements, in encounter order
    sequences,           \* self.sequences
    indexes,             \* self.indexes
    comments,            \* self.comments
    foreign_keys,        \* self.foreign_keys
    warnings,            \* the number of warnings printed to stderr
    schema_output,       \* the text of the schema file (None: not written yet)
    schema_pc,           \* position of _process_schema
    \* ---- Type Mapper as a pure function: input type and result
    ty_input, ty_result,
    \* ---- Table Converter as a pure function: input clause and result
    tb_input, tb_result

-----------------------------------------------------------------------------
(* Characters *)

BackTick == "U+0060"
EAcute == "U+00E9"
ATilde == "U+00C3"
CopyrightSign == "U+00A9"
\* the byte E9 of a line of the input file where no UTF-8 sequence begins
ByteE9 == "0xE9"

LowerCase == <<"a","b","c","d","e","f","g","h","i","j","k","l","m",
               "n","o","p","q","r","s","t","u","v","w","x","y","z">>
UpperCase == <<"A","B","C","D","E","F","G","H","I","J","K","L","M",
               "N","O","P","Q","R","S","T","U","V","W","X","Y","Z">>
Digits == {"0","1","2","3","4","5","6","7","8","9"}

Range(s) == {s[i] : i \in DOMAIN s}

\* str.upper() on one character, as re.IGNORECASE compares letters
ToUpper(c) ==
    IF \E i \in DOMAIN LowerCase : LowerCase[i] = c
    THEN UpperCase[CHOOSE i \in DOMAIN LowerCase : LowerCase[i] = c]
    ELSE c

\* the class \s of Python's re for str patterns (the characters used here)
IsSpace(c) == c \in {" ", "\t", "\n", "\r", "\f"}

\* the class \w of Python's re for str patterns: letters, digits, underscore
IsWord(c) == c \in Range(LowerCase) \cup Range(UpperCase) \cup Digits \cup {"_", EAcute, ATilde}

\* len(c.encode('utf-8')) for one character
Utf8Bytes(c) == IF c \in {EAcute, ATilde, CopyrightSign} THEN 2 ELSE 1

\* len(s.encode('utf-8')): every character counts once, a two-byte one twice
Utf8Len(s) == Len(s) + Cardinality({i \in DOMAIN s : Utf8Bytes(s[i]) = 2})

-----------------------------------------------------------------------------
(* String primitives of Python used by the converter *)

\* s[i:].startswith(pat)
StartsAt(s, pat, i) ==
    /\ i >= 1
    /\ i + Len(pat) - 1 <= Len(s)
    /\ \A k \in 1..Len(pat) : s[i + k - 1] = pat[k]

\* the same, ignoring letter case (re.IGNORECASE on a literal)
StartsAtIgnoreCase(s, pat, i) ==
    /\ i >= 1
    /\ i + Len(pat) - 1 <= Len(s)
    /\ \A k \in 1..Len(pat) : ToUpper(s[i + k - 1]) = ToUpper(pat[k])

Min(S) == CHOOSE x \in S : \A y \in S : x <= y
Max(S) == CHOOSE x \in S : \A y \in S : x >= y

\* index of the first character at or after i that \s does not match
\* (Len(s) + 1 when there is none)
SkipSpaces(s, i) ==
    Min({k \in i..(Len(s) + 1) : k > Len(s) \/ ~IsSpace(s[k])} \cup {Len(s) + 1})

\* str.rstrip(chars)
RStripChars(s, chars) ==
    SubSeq(s, 1, Max({k \in 1..Len(s) : s[k] \notin chars} \cup {0}))

\* str.rstrip()
RStripSpace(s) ==
    SubSeq(s, 1, Max({k \in 1..Len(s) : ~IsSpace(s[k])} \cup {0}))

RECURSIVE StrReplaceFrom(_, _, _, _)
\* the scan from index i: copy up to the leftmost occurrence, replace it, go on after it
StrReplaceFrom(s, pat, rep, i) ==
    LET M == {k \in i..Len(s) : StartsAt(s, pat, k)}
    IN  IF M = {} THEN SubSeq(s, i, Len(s))
        ELSE SubSeq(s, i, Min(M) - 1) \o rep \o StrReplaceFrom(s, pat, rep, Min(M) + Len(pat))

\* str.replace(pat, rep): leftmost non-overlapping occurrences
StrReplace(s, pat, rep) == StrReplaceFrom(s, pat, rep, 1)

-----------------------------------------------------------------------------
(* Line Rewriter: InsertExtractorAndSplitter.convert_insert_line *)

\* the value None
None == <<"None">>

\* re.match(r'^\s*INSERT\s+INTO', line, re.IGNORECASE)
MatchInsertInto(s) ==
    LET i == SkipSpaces(s, 1)
        j == i + 6
        k == SkipSpaces(s, j)
    IN  /\ StartsAtIgnoreCase(s, <<"I","N","S","E","R","T">>, i)
        /\ j <= Len(s) /\ IsSpace(s[j])
        /\ StartsAtIgnoreCase(s, <<"I","N","T","O">>, k)

\* index of the first backtick at or after i, 0 if there is none
NextBackTick(s, i) ==
    LET B == {k \in i..Len(s) : s[k] = BackTick}
    IN  IF B = {} THEN 0 ELSE Min(B)

\* r'`([^`]+)`' matches at i: a backtick, one or more other characters, a backtick
BackTickPairAt(s, i) ==
    /\ i <= Len(s)
    /\ s[i] = BackTick
    /\ NextBackTick(s, i + 1) >= i + 2

RECURSIVE SubBackTickFrom(_, _)
SubBackTickFrom(s, i) ==
    LET M == {k \in i..Len(s) : BackTickPairAt(s, k)}
    IN  IF M = {} THEN SubSeq(s, i, Len(s))
        ELSE LET k == Min(M)
                 j == NextBackTick(s, k + 1)
             IN  SubSeq(s, i, k - 1) \o <<"\"">> \o SubSeq(s, k + 1, j - 1) \o <<"\"">>
                   \o SubBackTickFrom(s, j + 1)

\* re.sub(r'`([^`]+)`', r'"\1"', s)
SubBackTick(s) == SubBackTickFrom(s, 1)

\* r"\bb'([01])'" (q the quote character) matches at i
BitLiteralAt(s, q, i) ==
    /\ i + 3 <= Len(s)
    /\ s[i] = "b" /\ s[i + 1] = q /\ s[i + 2] \in {"0", "1"} /\ s[i + 3] = q
    /\ (i = 1 \/ ~IsWord(s[i - 1]))

RECURSIVE SubBitLiteralFrom(_, _, _)
SubBitLiteralFrom(s, q, i) ==
    LET M == {k \in i..Len(s) : BitLiteralAt(s, q, k)}
    IN  IF M = {} THEN SubSeq(s, i, Len(s))
        ELSE SubSeq(s, i, Min(M) - 1) \o <<"'", s[Min(M) + 2], "'">>
               \o SubBitLiteralFrom(s, q, Min(M) + 4)

\* re.sub(r"\bb'([01])'", r"'\1'", s) and re.sub(r'\bb"([01])"', r"'\1'", s)
SubBitLiteral(s, q) == SubBitLiteralFrom(s, q, 1)

\* r'(?<!\\)\\N' matches at i
NullMarkerAt(s, i) ==
    /\ i + 1 <= Len(s)
    /\ s[i] = "\\" /\ s[i + 1] = "N"
    /\ (i = 1 \/ s[i - 1] # "\\")

RECURSIVE SubNullMarkerFrom(_, _)
SubNullMarkerFrom(s, i) ==
    LET M == {k \in i..Len(s) : NullMarkerAt(s, k)}
    IN  IF M = {} THEN SubSeq(s, i, Len(s))
        ELSE SubSeq(s, i, Min(M) - 1) \o <<"N","U","L","L">>
               \o SubNullMarkerFrom(s, Min(M) + 2)

\* re.sub(r'(?<!\\)\\N', 'NULL', s)
SubNullMarker(s) == SubNullMarkerFrom(s, 1)

\* if not converted.rstrip().endswith(';'): converted += ';'
EnsureTerminator(s) ==
    LET t == RStripSpace(s)
    IN  IF t # <<>> /\ t[Len(t)] = ";" THEN s ELSE s \o <<";">>

\* the substitutions in another order: backslashes are halved first
RewriteInsertBackslashFirst(line) ==
    LET c1 == StrReplace(line, <<"\\", "\\">>, <<"\\">>)
        c2 == SubBackTick(c1)
        c3 == SubBitLiteral(c2, "'")
        c4 == SubBitLiteral(c3, "\"")
        c5 == StrReplace(c4, <<"\\", "'">>, <<"'", "'">>)
        c6 == SubNullMarker(c5)
        c7 == StrReplace(c6, <<"\\", "0">>, <<>>)
    IN  EnsureTerminator(c7)

\* the substitutions of convert_insert_line, in the order of its assignments
RewriteInsert(line) ==
    LET c1 == SubBackTick(line)
        c2 == SubBitLiteral(c1, "'")
        c3 == SubBitLiteral(c2, "\"")
        c4 == StrReplace(c3, <<"\\", "'">>, <<"'", "'">>)
        c5 == SubNullMarker(c4)
        c6 == StrReplace(c5, <<"\\", "0">>, <<>>)
        c7 == StrReplace(c6, <<"\\", "\\">>, <<"\\">>)
    IN  EnsureTerminator(c7)

\* a rewriter that lets every line through
convert_every_line(l) == RewriteInsert(RStripChars(l, {"\r", "\n"}))

convert_insert_line(l) ==
    LET line == RStripChars(l, {"\r", "\n"})
    IN  IF ~MatchInsertInto(line) THEN None ELSE RewriteInsert(line)

-----------------------------------------------------------------------------
(* Chunk Writer: InsertExtractorAndSplitter.process_file *)

\* bounds of the model
MaxLines == 4
Budgets == {40, 100}

Pad(n) == [i \in 1..n |-> "x"]

InsertHead == <<"I", "N", "S", "E", "R", "T", " ", "I", "N", "T", "O", " ", "t", " ",
                "V", "A", "L", "U", "E", "S", " ", "(", "'">>

\* an INSERT line whose converted form takes n bytes (n >= 26)
InsertOfBytes(n) == InsertHead \o Pad(n - 26) \o <<"'", ")", ";", "\n">>

LineComment == <<"-", "-", " ", "I", "N", "S", "E", "R", "T", " ", "I", "N", "T", "O", " ", "t", " ",
                 "V", "A", "L", "U", "E", "S", " ", "(", "0", ")", ";", "\n">>
LineShort == <<"I", "N", "S", "E", "R", "T", " ", "I", "N", "T", "O", " ", "t", " ",
               "V", "A", "L", "U", "E", "S", " ", "(", "1", ")", ";", "\n">>
LineIndented == <<" ", " ", "i", "n", "s", "e", "r", "t", " ", "i", "n", "t", "o", " ",
                  BackTick, "t", BackTick, " ", "V", "A", "L", "U", "E", "S", " ", "(",
                  "'", EAcute, "'", ")", "\r", "\n">>
\* a line that is no UTF-8: the byte E9 alone, then the two bytes of an e acute
LineLatin1 == <<"I", "N", "S", "E", "R", "T", " ", "I", "N", "T", "O", " ", BackTick, "t", BackTick, " ", "V", "A", "L", "U", "E", "S", " ", "(", "'">> \o <<ByteE9, EAcute>> \o <<"'", ")", ";", "\n">>
Line60 == InsertOfBytes(60)
LineHuge == InsertOfBytes(104)

\* the lines an input file is made of, as read in binary mode: one element
\* for a byte below 128, one for the bytes of a UTF-8 sequence (named by its
\* character), and ByteE9
DataLines == {LineComment, LineShort, LineIndented, LineLatin1, Line60, LineHuge}

\* binary_line.decode('utf-8'): None for UnicodeDecodeError
DecodeUtf8(binary_line) ==
    IF ByteE9 \in Range(binary_line) THEN None ELSE binary_line

\* binary_line.decode('latin-1'): every byte is a character, so the two bytes
\* C3 A9 of an e acute are two characters and the byte E9 is an e acute; no
\* byte fails
DecodeLatin1(binary_line) ==
    LET extra(i) == Cardinality({j \in 1..i : binary_line[j] = EAcute})
        unit(k) == CHOOSE i \in DOMAIN binary_line :
                       i + extra(i - 1) <= k /\ k <= i + extra(i)
    IN  [k \in 1..(Len(binary_line) + extra(Len(binary_line))) |->
            IF binary_line[unit(k)] = ByteE9 THEN EAcute
            ELSE IF binary_line[unit(k)] # EAcute THEN binary_line[unit(k)]
            ELSE IF k = unit(k) + extra(unit(k) - 1) THEN ATilde
            ELSE CopyrightSign]

\* a mutant: no second decoding
DecodeLinePrimaryOnly(binary_line) == DecodeUtf8(binary_line)

\* lines 104-111: the line decoded, None when both decodings fail
DecodeLine(binary_line) ==
    IF DecodeUtf8(binary_line) # None THEN DecodeUtf8(binary_line)
    ELSE DecodeLatin1(binary_line)

\* the decoded lines of the input, evaluated once per line
DecodedLine == [l \in DataLines |-> DecodeLine(l)]

\* convert_insert_line on the decoded lines of the input, evaluated once per
\* line (None as well for a line that was not decoded)
ConvertedLine ==
    [l \in DataLines |-> IF DecodedLine[l] = None THEN None
                         ELSE convert_insert_line(DecodedLine[l])]

NoHandle == [file |-> 0, closed |-> TRUE]

\* _write_header: the lines it writes (the comment carries the chunk number)
write_header(chunk_num) ==
    << [kind |-> "comment", part |-> chunk_num],
       [kind |-> "pragma", text |-> "\\set ON_ERROR_STOP off"],
       [kind |-> "pragma", text |-> "SET session_replication_role = 'replica';"],
       [kind |-> "pragma", text |-> "SET synchronous_commit = OFF;"],
       [kind |-> "pragma", text |-> "SET maintenance_work_mem = '256MB';"] >>

\* _write_footer
write_footer ==
    << [kind |-> "comment", part |-> 0],
       [kind |-> "pragma", text |-> "SET session_replication_role = 'origin';"] >>

\* open(path, 'w'): creates the file, or truncates the file of that name
Open(fs, n) ==
    IF \E k \in DOMAIN fs : fs[k].number = n
    THEN [k \in DOMAIN fs |-> IF fs[k].number = n THEN [number |-> n, content |-> <<>>] ELSE fs[k]]
    ELSE Append(fs, [number |-> n, content |-> <<>>])

\* handle.write(...) on the file named n
Write(fs, n, items) ==
    [k \in DOMAIN fs |->
        IF fs[k].number = n THEN [fs[k] EXCEPT !.content = @ \o items] ELSE fs[k]]

\* the split test with only the bytes of the line, without the bytes the
\* chunk holds
NeedsNewChunkLineOnly(size, line_bytes, budget) == line_bytes > budget /\ size > 0

\* a condition that forgets the bytes of the arriving line
NeedsNewChunkSizeOnly(size, line_bytes, budget) == size > budget /\ size > 0

\* a condition that forgets that the chunk must hold a statement
NeedsNewChunkAlways(size, line_bytes, budget) == size + line_bytes > budget

\* self.current_chunk_size + line_bytes > self.chunk_size_bytes and self.current_chunk_size > 0
NeedsNewChunk(size, line_bytes, budget) == size + line_bytes > budget /\ size > 0

\* a chunk number that is not advanced: the next file takes the name of the current one
SameChunkNumber(n) == n

\* a chunk number advanced twice
SkippedChunkNumber(n) == n + 2

\* self.chunk_number += 1
NextChunkNumber(n) == n + 1

ChunkInit ==
    /\ chunk_size_bytes \in Budgets
    /\ current_chunk_size = 0
    /\ chunk_number = 1
    /\ total_inserts = 0
    /\ output_handle = NoHandle
    /\ files = <<>>
    /\ input = <<>>
    /\ decode_warnings = 0
    /\ pc = "start"

\* lines 86-91: open the first output file and write its header
OpenFirst ==
    /\ pc = "start"
    /\ files' = Write(Open(files, chunk_number), chunk_number, write_header(chunk_number))
    /\ output_handle' = [file |-> chunk_number, closed |-> FALSE]
    /\ pc' = "loop"
    /\ UNCHANGED <<chunk_size_bytes, current_chunk_size, chunk_number, total_inserts, input,
                   decode_warnings>>

\* lines 99-138: one iteration of the read loop, for the line l
ReadLine(l) ==
    /\ pc = "loop"
    /\ Len(input) < MaxLines
    /\ input' = Append(input, l)
    /\ decode_warnings' = IF DecodedLine[l] = None THEN decode_warnings + 1
                          ELSE decode_warnings
    /\ LET converted_line == ConvertedLine[l]
           line_bytes == Utf8Len(converted_line) + 1
           roll == NeedsNewChunk(current_chunk_size, line_bytes, chunk_size_bytes)
           number == IF roll THEN NextChunkNumber(chunk_number) ELSE chunk_number
           size == IF roll THEN 0 ELSE current_chunk_size
           rolled == IF roll
                     THEN Write(Open(Write(files, output_handle.file, write_footer), number),
                                number, write_header(number))
                     ELSE files
       IN  IF converted_line = None \/ converted_line = <<>>
           THEN UNCHANGED <<current_chunk_size, chunk_number, total_inserts,
                            output_handle, files>>
           ELSE /\ chunk_number' = number
                /\ output_handle' = [file |-> number, closed |-> FALSE]
                /\ files' = Write(rolled, number,
                                  << [kind |-> "stmt", text |-> converted_line \o <<"\n">>] >>)
                /\ current_chunk_size' = size + line_bytes
                /\ total_inserts' = total_inserts + 1
    /\ UNCHANGED <<chunk_size_bytes, pc>>

\* lines 149-156: end of input; the finally block writes the footer and closes
EndOfInput ==
    /\ pc = "loop"
    /\ IF ~output_handle.closed
       THEN /\ files' = Write(files, output_handle.file, write_footer)
            /\ output_handle' = [output_handle EXCEPT !.closed = TRUE]
       ELSE UNCHANGED <<files, output_handle>>
    /\ pc' = "done"
    /\ UNCHANGED <<chunk_size_bytes, current_chunk_size, chunk_number, total_inserts, input,
                   decode_warnings>>

process_file == OpenFirst \/ (\E l \in DataLines : ReadLine(l)) \/ EndOfInput

\* the steps of one pass of the loop at which an OSError may be raised: the
\* footer of the chunk that is full (line 124), the opening of the next file
\* (line 132), its header (line 133), the statement (line 136)
FailureSteps == {"footer", "open", "header", "statement"}

\* lines 149-156 after an exception: the finally block, of whose footer the
\* first written writes succeed; the handle is closed when all of them did
Finally(fs, handle, written) ==
    IF handle.closed THEN [files |-> fs, handle |-> handle]
    ELSE [files |-> Write(fs, handle.file, SubSeq(write_footer, 1, written)),
          handle |-> [handle EXCEPT !.closed = (written = Len(write_footer))]]

\* lines 86-91: the header of the first file fails after written writes; the
\* try statement has not begun
OpenFirstFails(written) ==
    /\ pc = "start"
    /\ files' = Write(Open(files, chunk_number), chunk_number,
                      SubSeq(write_header(chunk_number), 1, written))
    /\ output_handle' = [file |-> chunk_number, closed |-> FALSE]
    /\ pc' = "aborted"
    /\ UNCHANGED <<chunk_size_bytes, current_chunk_size, chunk_number, total_inserts, input,
                   decode_warnings>>

\* line 99: reading the next line of the input file fails
ReadFails(footer_written) ==
    /\ pc = "loop"
    /\ files' = Finally(files, output_handle, footer_written).files
    /\ output_handle' = Finally(files, output_handle, footer_written).handle
    /\ pc' = "failed"
    /\ UNCHANGED <<chunk_size_bytes, current_chunk_size, chunk_number, total_inserts, input,
                   decode_warnings>>

\* the files, the handle, the chunk number and the chunk size when the pass
\* of the loop for the converted line fails at step, after written writes of
\* that step
FailedPass(converted_line, step, written) ==
    LET line_bytes == Utf8Len(converted_line) + 1
        roll == NeedsNewChunk(current_chunk_size, line_bytes, chunk_size_bytes)
        number == IF roll THEN NextChunkNumber(chunk_number) ELSE chunk_number
        closed == Write(files, output_handle.file, write_footer)
    IN  IF step = "footer"
        THEN [files |-> Write(files, output_handle.file, SubSeq(write_footer, 1, written)),
              handle |-> output_handle,
              number |-> chunk_number, size |-> current_chunk_size]
        ELSE IF step = "open"
        THEN [files |-> closed,
              handle |-> [output_handle EXCEPT !.closed = TRUE],
              number |-> number, size |-> 0]
        ELSE IF step = "header"
        THEN [files |-> Write(Open(closed, number), number,
                              SubSeq(write_header(number), 1, written)),
              handle |-> [file |-> number, closed |-> FALSE],
              number |-> number, size |-> 0]
        ELSE [files |-> IF roll THEN Write(Open(closed, number), number, write_header(number))
                        ELSE files,
              handle |-> [file |-> number, closed |-> FALSE],
              number |-> number,
              size |-> IF roll THEN 0 ELSE current_chunk_size]

\* lines 99-156: the pass of the loop for the line l raises an OSError at
\* step, and the finally block runs
ReadLineFails(l, step, written, footer_written) ==
    /\ pc = "loop"
    /\ Len(input) < MaxLines
    /\ ConvertedLine[l] # None /\ ConvertedLine[l] # <<>>
    /\ step = "statement"
         \/ NeedsNewChunk(current_chunk_size, Utf8Len(ConvertedLine[l]) + 1, chunk_size_bytes)
    /\ written < (IF step = "footer" THEN Len(write_footer)
                  ELSE IF step = "header" THEN Len(write_header(chunk_number))
                  ELSE 1)
    /\ input' = Append(input, l)
    /\ LET failed == FailedPass(ConvertedLine[l], step, written)
       IN  /\ files' = Finally(failed.files, failed.handle, footer_written).files
           /\ output_handle' = Finally(failed.files, failed.handle, footer_written).handle
           /\ chunk_number' = failed.number
           /\ current_chunk_size' = failed.size
    /\ pc' = "failed"
    /\ UNCHANGED <<chunk_size_bytes, total_inserts, decode_warnings>>

\* lines 149-156 at the end of the input: a write of the footer fails
EndOfInputFails(footer_written) ==
    /\ pc = "loop"
    /\ footer_written < Len(write_footer)
    /\ files' = Finally(files, output_handle, footer_written).files
    /\ output_handle' = Finally(files, output_handle, footer_written).handle
    /\ pc' = "failed"
    /\ UNCHANGED <<chunk_size_bytes, current_chunk_size, chunk_number, total_inserts, input,
                   decode_warnings>>

\* process_file on a file system whose writes and reads may fail
process_file_failing ==
    \/ process_file
    \/ \E written \in 0..(Len(write_header(chunk_number)) - 1) : OpenFirstFails(written)
    \/ \E footer_written \in 0..Len(write_footer) : ReadFails(footer_written)
    \/ \E l \in DataLines, step \in FailureSteps,
          written \in 0..(Len(write_header(chunk_number)) - 1),
          footer_written \in 0..Len(write_footer) :
            ReadLineFails(l, step, written, footer_written)
    \/ \E footer_written \in 0..Len(write_footer) : EndOfInputFails(footer_written)

-----------------------------------------------------------------------------
(* The Line Rewriter applied to one line *)

\* bound of the model: the number of fragments after the line's prefix
MaxFrags == 2

RewritePrefixes ==
    { <<"I", "N", "S", "E", "R", "T", " ", "I", "N", "T", "O", " ", "t", " ">>,
      <<"i", "n", "s", "e", "r", "t", "\t", "I", "N", "T", "O", " ", "t", " ">>,
      <<" ", " ", "I", "N", "S", "E", "R", "T", " ", "I", "N", "T", "O", " ", "t", " ">>,
      <<"I", "N", "S", "E", "R", "T", "I", "N", "T", "O", " ", "t", " ">>,
      <<"-", "-", " ">> }

RewriteFrags ==
    { <<BackTick>>, <<"x">>, <<"b", "'", "1", "'">>, <<"b", "\"", "0", "\"">>,
      <<"\\">>, <<"\\", "\\">>, <<"'">>, <<"N">>, <<"0">>, <<";">>, <<" ">> }

RewriteSuffixes == { <<>>, <<"\r", "\n">> }

RECURSIVE Bodies(_)
Bodies(n) ==
    IF n = 0 THEN { <<>> }
    ELSE Bodies(n - 1) \cup { b \o f : b \in Bodies(n - 1), f \in RewriteFrags }

\* the data line of the documented scenario and its documented conversion
ScenarioLine ==
    <<"I", "N", "S", "E", "R", "T", " ", "I", "N", "T", "O", " ", BackTick, "t", BackTick,
      " ", "V", "A", "L", "U", "E", "S", " ", "(", "1", ",", " ", "'", "x", "\\", "'", "y",
      "'", ",", " ", "\\", "N", ",", " ", "b", "'", "1", "'", ")", ";">>
ScenarioConverted ==
    <<"I", "N", "S", "E", "R", "T", " ", "I", "N", "T", "O", " ", "\"", "t", "\"",
      " ", "V", "A", "L", "U", "E", "S", " ", "(", "1", ",", " ", "'", "x", "'", "'", "y",
      "'", ",", " ", "N", "U", "L", "L", ",", " ", "'", "1", "'", ")", ";">>

RewriteLines ==
    { p \o b \o x : p \in RewritePrefixes, b \in Bodies(MaxFrags), x \in RewriteSuffixes }
      \cup { ScenarioLine }

Pending == <<"pending">>

RewriterInit ==
    /\ rw_line \in RewriteLines
    /\ rw_result = Pending

\* one call of convert_insert_line
Rewrite ==
    /\ rw_result = Pending
    /\ rw_result' = convert_insert_line(rw_line)
    /\ UNCHANGED rw_line

-----------------------------------------------------------------------------
(* Clause Splitter: DDLConverter._split_by_comma *)

\* quote_char = None
NoQuote == "none"

\* a loop body that cuts at every comma outside quoted literals, whatever the
\* parenthesis depth
SplitBodyAnyDepth(text, st) ==
    LET i == st.i
        char == text[i]
        put == [st EXCEPT !.current = Append(@, char), !.i = i + 1]
    IN  IF char \in {"'", "\""}
        THEN IF st.quote_char = NoQuote
             THEN [put EXCEPT !.quote_char = char]
             ELSE IF st.quote_char = char
                  THEN IF i + 1 <= Len(text) /\ text[i + 1] = char
                       THEN [st EXCEPT !.current = @ \o <<char, char>>, !.i = i + 2]
                       ELSE [put EXCEPT !.quote_char = NoQuote]
                  ELSE put
        ELSE IF st.quote_char = NoQuote /\ char = ","
             THEN [st EXCEPT !.items = Append(@, st.current), !.current = <<>>, !.i = i + 1]
             ELSE put

\* lines 220-254: the body of the while loop, on the state
\* st = [i, items, current, paren_depth, quote_char]
SplitBody(text, st) ==
    LET i == st.i
        char == text[i]
        put == [st EXCEPT !.current = Append(@, char), !.i = i + 1]
    IN  IF char \in {"'", "\""}
        THEN IF st.quote_char = NoQuote
             THEN [put EXCEPT !.quote_char = char]
             ELSE IF st.quote_char = char
                  THEN IF i + 1 <= Len(text) /\ text[i + 1] = char
                       THEN [st EXCEPT !.current = @ \o <<char, char>>, !.i = i + 2]
                       ELSE [put EXCEPT !.quote_char = NoQuote]
                  ELSE put
        ELSE IF st.quote_char = NoQuote
             THEN IF char = "("
                  THEN [put EXCEPT !.paren_depth = @ + 1]
                  ELSE IF char = ")"
                       THEN [put EXCEPT !.paren_depth = @ - 1]
                       ELSE IF char = "," /\ st.paren_depth = 0
                            THEN [st EXCEPT !.items = Append(@, st.current),
                                            !.current = <<>>, !.i = i + 1]
                            ELSE put
             ELSE put

RECURSIVE SplitLoop(_, _, _, _)
\* while i < len(text): the iterations whose index lies in lo..hi, in order (an
\* index that a doubled quote has stepped over has no iteration).  The first
\* half of the range is evaluated before the second half is entered.
SplitLoop(text, st, lo, hi) ==
    IF lo > hi THEN st
    ELSE IF lo = hi
         THEN IF st.i = lo THEN SplitBody(text, st) ELSE st
         ELSE LET mid == (lo + hi) \div 2
                  half == SplitLoop(text, st, lo, mid)
              IN  IF half.i > mid
                  THEN SplitLoop(text, half, mid + 1, hi)
                  ELSE half

split_by_comma(text) ==
    LET st0 == [i |-> 1, items |-> <<>>, current |-> <<>>, paren_depth |-> 0,
                quote_char |-> NoQuote]
        st == SplitLoop(text, st0, 1, Len(text))
    IN  IF st.current # <<>> THEN Append(st.items, st.current) ELSE st.items

-----------------------------------------------------------------------------
(* The Clause Splitter applied to one text *)

\* bound of the model: the length of the text
MaxSplitLen == 5

SplitAlphabet == {"a", ",", "(", ")", "'", "\""}

RECURSIVE TextsOver(_, _)
\* the texts of at most n characters of the alphabet
TextsOver(alphabet, n) ==
    IF n = 0 THEN { <<>> }
    ELSE TextsOver(alphabet, n - 1)
           \cup { Append(t, c) : t \in TextsOver(alphabet, n - 1), c \in alphabet }

SplitterInit ==
    /\ sp_text \in TextsOver(SplitAlphabet, MaxSplitLen)
    /\ sp_items = Pending

\* one call of _split_by_comma
Split ==
    /\ sp_items = Pending
    /\ sp_items' = split_by_comma(sp_text)
    /\ UNCHANGED sp_text

-----------------------------------------------------------------------------
(* Text primitives of the DDL converter *)

\* str.lower() on one character
ToLower(c) ==
    IF \E i \in DOMAIN UpperCase : UpperCase[i] = c
    THEN LowerCase[CHOOSE i \in DOMAIN UpperCase : UpperCase[i] = c]
    ELSE c

\* str.lower()
Lower(s) == [i \in DOMAIN s |-> ToLower(s[i])]

\* index of the first character at or after i that \w does not match
SkipWord(s, i) ==
    Min({k \in i..(Len(s) + 1) : k > Len(s) \/ ~IsWord(s[k])} \cup {Len(s) + 1})

\* index of the first character at or after i that \d does not match
SkipDigits(s, i) ==
    Min({k \in i..(Len(s) + 1) : k > Len(s) \/ s[k] \notin Digits} \cup {Len(s) + 1})

\* index of the first occurrence of the character c at or after i (Len(s) + 1: none)
IndexOf(s, c, i) ==
    Min({k \in i..Len(s) : s[k] = c} \cup {Len(s) + 1})

\* str.strip()
Strip(s) ==
    LET K == {k \in DOMAIN s : ~IsSpace(s[k])}
    IN  IF K = {} THEN <<>> ELSE SubSeq(s, Min(K), Max(K))

\* str.strip(chars)
StripChars(s, chars) ==
    LET K == {k \in DOMAIN s : s[k] \notin chars}
    IN  IF K = {} THEN <<>> ELSE SubSeq(s, Min(K), Max(K))

\* str.split(c): the pieces between the occurrences of c
SplitOn(s, c) ==
    LET C == {k \in DOMAIN s : s[k] = c}
        Nth(n) == IF n = 0 THEN 0
                  ELSE IF n > Cardinality(C) THEN Len(s) + 1
                  ELSE CHOOSE k \in C : Cardinality({j \in C : j <= k}) = n
    IN  [n \in 1..(Cardinality(C) + 1) |-> SubSeq(s, Nth(n - 1) + 1, Nth(n) - 1)]

RECURSIVE Join(_, _)
\* sep.join(parts)
Join(parts, sep) ==
    IF parts = <<>> THEN <<>>
    ELSE IF Len(parts) = 1 THEN parts[1]
    ELSE parts[1] \o sep \o Join(Tail(parts), sep)

\* quote_identifier
quote_identifier(name) == <<"\"">> \o name \o <<"\"">>

\* [quote_identifier(c.strip().strip('`"')) for c in cols.split(',')] joined by ', '
QuotedColumns(cols) ==
    LET parts == SplitOn(cols, ",")
    IN  Join([n \in DOMAIN parts |->
                quote_identifier(StripChars(Strip(parts[n]), {BackTick, "\""}))],
             <<",", " ">>)

-----------------------------------------------------------------------------
(* Regular expressions of the DDL converter.  A pattern is a sequence of      *)
(* elements, matched one after the other from a start index, each as far as   *)
(* it goes (in these patterns an element that gave characters back could not  *)
(* make the next one match):                                                  *)
(*   lit  the keyword v, in any letter case (re.IGNORECASE)                   *)
(*   ws+  \s+           ws*  \s*           q?   [`"]?                         *)
(*   word (\w+), a group                   ch   the character v[1]            *)
(*   upto ([^c]+) with c = v[1], a group                                      *)
(*   alt  (a|b), one of the keywords of v, a group                            *)
(*   num  \d+             num() (\d+), a group                                *)

Lit(v) == [t |-> "lit", v |-> v]
Ws1 == [t |-> "ws+", v |-> <<>>]
Ws0 == [t |-> "ws*", v |-> <<>>]
OptQuote == [t |-> "q?", v |-> <<>>]
Word == [t |-> "word", v |-> <<>>]
Ch(c) == [t |-> "ch", v |-> <<c>>]
UpTo(c) == [t |-> "upto", v |-> <<c>>]
Alt(vs) == [t |-> "alt", v |-> vs]
Num == [t |-> "num", v |-> <<>>]
NumGroup == [t |-> "num()", v |-> <<>>]

NoMatch == [ok |-> FALSE, start |-> 0, end |-> 0, groups |-> <<>>]

RECURSIVE MatchFrom(_, _, _, _, _, _)
\* the elements k.. of the pattern matched from index i; start is the index
\* where the whole match began, end the index after the match
MatchFrom(s, start, i, pat, k, groups) ==
    IF k > Len(pat) THEN [ok |-> TRUE, start |-> start, end |-> i, groups |-> groups]
    ELSE LET e == pat[k]
         IN  CASE e.t = "lit" ->
                    IF StartsAtIgnoreCase(s, e.v, i)
                    THEN MatchFrom(s, start, i + Len(e.v), pat, k + 1, groups)
                    ELSE NoMatch
               [] e.t = "ws+" ->
                    IF SkipSpaces(s, i) > i
                    THEN MatchFrom(s, start, SkipSpaces(s, i), pat, k + 1, groups)
                    ELSE NoMatch
               [] e.t = "ws*" ->
                    MatchFrom(s, start, Max({i, SkipSpaces(s, i)}), pat, k + 1, groups)
               [] e.t = "q?" ->
                    IF i <= Len(s) /\ s[i] \in {BackTick, "\""}
                    THEN MatchFrom(s, start, i + 1, pat, k + 1, groups)
                    ELSE MatchFrom(s, start, i, pat, k + 1, groups)
               [] e.t = "word" ->
                    IF SkipWord(s, i) > i
                    THEN MatchFrom(s, start, SkipWord(s, i), pat, k + 1,
                                   Append(groups, SubSeq(s, i, SkipWord(s, i) - 1)))
                    ELSE NoMatch
               [] e.t = "ch" ->
                    IF i <= Len(s) /\ s[i] = e.v[1]
                    THEN MatchFrom(s, start, i + 1, pat, k + 1, groups)
                    ELSE NoMatch
               [] e.t = "alt" ->
                    LET A == {a \in DOMAIN e.v : StartsAtIgnoreCase(s, e.v[a], i)}
                    IN  IF A # {}
                        THEN MatchFrom(s, start, i + Len(e.v[Min(A)]), pat, k + 1,
                                       Append(groups, SubSeq(s, i, i + Len(e.v[Min(A)]) - 1)))
                        ELSE NoMatch
               [] e.t \in {"num", "num()"} ->
                    IF SkipDigits(s, i) > i
                    THEN MatchFrom(s, start, SkipDigits(s, i), pat, k + 1,
                                   IF e.t = "num" THEN groups
                                   ELSE Append(groups, SubSeq(s, i, SkipDigits(s, i) - 1)))
                    ELSE NoMatch
               [] e.t = "upto" ->
                    IF i <= Len(s) /\ IndexOf(s, e.v[1], i) > i
                    THEN MatchFrom(s, start, IndexOf(s, e.v[1], i), pat, k + 1,
                                   Append(groups, SubSeq(s, i, IndexOf(s, e.v[1], i) - 1)))
                    ELSE NoMatch

\* re.match(pat, s)
ReMatch(s, pat) == MatchFrom(s, 1, 1, pat, 1, <<>>)

\* re.search(pat, s) from index i on: the leftmost match
ReSearchFrom(s, pat, i) ==
    LET P == {p \in i..(Len(s) + 1) : MatchFrom(s, p, p, pat, 1, <<>>).ok}
    IN  IF P = {} THEN NoMatch ELSE MatchFrom(s, Min(P), Min(P), pat, 1, <<>>)

\* re.search(pat, s)
ReSearch(s, pat) == ReSearchFrom(s, pat, 1)

RECURSIVE ReDeleteFrom(_, _, _)
ReDeleteFrom(s, pat, i) ==
    LET m == ReSearchFrom(s, pat, i)
    IN  IF ~m.ok THEN SubSeq(s, i, Len(s))
        ELSE SubSeq(s, i, m.start - 1) \o ReDeleteFrom(s, pat, m.end)

\* re.sub(pat, '', s)
ReDelete(s, pat) == ReDeleteFrom(s, pat, 1)

-----------------------------------------------------------------------------
(* Type Mapper: TYPE_MAPPING and convert_data_type *)

\* TYPE_MAPPING, in declared order: the type name and the shape of the
\* parameter part of each pattern, the replacement and the number of groups
\* (\1, \2) it carries forward
TYPE_MAPPING ==
    <<
      [name |-> <<"t", "i", "n", "y", "i", "n", "t">>, shape |-> "n1", repl |-> <<"s", "m", "a", "l", "l", "i", "n", "t">>, carry |-> 0],
      [name |-> <<"s", "m", "a", "l", "l", "i", "n", "t">>, shape |-> "n1", repl |-> <<"s", "m", "a", "l", "l", "i", "n", "t">>, carry |-> 0],
      [name |-> <<"m", "e", "d", "i", "u", "m", "i", "n", "t">>, shape |-> "n1", repl |-> <<"i", "n", "t", "e", "g", "e", "r">>, carry |-> 0],
      [name |-> <<"i", "n", "t">>, shape |-> "n1", repl |-> <<"i", "n", "t", "e", "g", "e", "r">>, carry |-> 0],
      [name |-> <<"i", "n", "t", "e", "g", "e", "r">>, shape |-> "n1", repl |-> <<"i", "n", "t", "e", "g", "e", "r">>, carry |-> 0],
      [name |-> <<"b", "i", "g", "i", "n", "t">>, shape |-> "n1", repl |-> <<"b", "i", "g", "i", "n", "t">>, carry |-> 0],
      [name |-> <<"d", "e", "c", "i", "m", "a", "l">>, shape |-> "c2", repl |-> <<"n", "u", "m", "e", "r", "i", "c">>, carry |-> 2],
      [name |-> <<"n", "u", "m", "e", "r", "i", "c">>, shape |-> "c2", repl |-> <<"n", "u", "m", "e", "r", "i", "c">>, carry |-> 2],
      [name |-> <<"f", "l", "o", "a", "t">>, shape |-> "c2", repl |-> <<"r", "e", "a", "l">>, carry |-> 0],
      [name |-> <<"b", "i", "t">>, shape |-> "one", repl |-> <<"b", "o", "o", "l", "e", "a", "n">>, carry |-> 0],
      [name |-> <<"b", "i", "t">>, shape |-> "c1", repl |-> <<"b", "i", "t">>, carry |-> 1],
      [name |-> <<"t", "i", "n", "y", "i", "n", "t">>, shape |-> "bare", repl |-> <<"s", "m", "a", "l", "l", "i", "n", "t">>, carry |-> 0],
      [name |-> <<"s", "m", "a", "l", "l", "i", "n", "t">>, shape |-> "bare", repl |-> <<"s", "m", "a", "l", "l", "i", "n", "t">>, carry |-> 0],
      [name |-> <<"m", "e", "d", "i", "u", "m", "i", "n", "t">>, shape |-> "bare", repl |-> <<"i", "n", "t", "e", "g", "e", "r">>, carry |-> 0],
      [name |-> <<"i", "n", "t">>, shape |-> "bare", repl |-> <<"i", "n", "t", "e", "g", "e", "r">>, carry |-> 0],
      [name |-> <<"i", "n", "t", "e", "g", "e", "r">>, shape |-> "bare", repl |-> <<"i", "n", "t", "e", "g", "e", "r">>, carry |-> 0],
      [name |-> <<"b", "i", "g", "i", "n", "t">>, shape |-> "bare", repl |-> <<"b", "i", "g", "i", "n", "t">>, carry |-> 0],
      [name |-> <<"f", "l", "o", "a", "t">>, shape |-> "bare", repl |-> <<"r", "e", "a", "l">>, carry |-> 0],
      [name |-> <<"d", "o", "u", "b", "l", "e">>, shape |-> "bare", repl |-> <<"d", "o", "u", "b", "l", "e", " ", "p", "r", "e", "c", "i", "s", "i", "o", "n">>, carry |-> 0],
      [name |-> <<"r", "e", "a", "l">>, shape |-> "bare", repl |-> <<"r", "e", "a", "l">>, carry |-> 0],
      [name |-> <<"d", "a", "t", "e", "t", "i", "m", "e">>, shape |-> "c1", repl |-> <<"t", "i", "m", "e", "s", "t", "a", "m", "p">>, carry |-> 1],
      [name |-> <<"d", "a", "t", "e", "t", "i", "m", "e">>, shape |-> "bare", repl |-> <<"t", "i", "m", "e", "s", "t", "a", "m", "p">>, carry |-> 0],
      [name |-> <<"t", "i", "m", "e", "s", "t", "a", "m", "p">>, shape |-> "c1", repl |-> <<"t", "i", "m", "e", "s", "t", "a", "m", "p">>, carry |-> 1],
      [name |-> <<"t", "i", "m", "e", "s", "t", "a", "m", "p">>, shape |-> "bare", repl |-> <<"t", "i", "m", "e", "s", "t", "a", "m", "p">>, carry |-> 0],
      [name |-> <<"d", "a", "t", "e">>, shape |-> "bare", repl |-> <<"d", "a", "t", "e">>, carry |-> 0],
      [name |-> <<"t", "i", "m", "e">>, shape |-> "c1", repl |-> <<"t", "i", "m", "e">>, carry |-> 1],
      [name |-> <<"t", "i", "m", "e">>, shape |-> "bare", repl |-> <<"t", "i", "m", "e">>, carry |-> 0],
      [name |-> <<"y", "e", "a", "r">>, shape |-> "n1", repl |-> <<"s", "m", "a", "l", "l", "i", "n", "t">>, carry |-> 0],
      [name |-> <<"y", "e", "a", "r">>, shape |-> "bare", repl |-> <<"s", "m", "a", "l", "l", "i", "n", "t">>, carry |-> 0],
      [name |-> <<"c", "h", "a", "r">>, shape |-> "c1", repl |-> <<"c", "h", "a", "r">>, carry |-> 1],
      [name |-> <<"v", "a", "r", "c", "h", "a", "r">>, shape |-> "c1", repl |-> <<"v", "a", "r", "c", "h", "a", "r">>, carry |-> 1],
      [name |-> <<"b", "i", "n", "a", "r", "y">>, shape |-> "c1", repl |-> <<"b", "y", "t", "e", "a">>, carry |-> 0],
      [name |-> <<"v", "a", "r", "b", "i", "n", "a", "r", "y">>, shape |-> "c1", repl |-> <<"b", "y", "t", "e", "a">>, carry |-> 0],
      [name |-> <<"t", "i", "n", "y", "b", "l", "o", "b">>, shape |-> "bare", repl |-> <<"b", "y", "t", "e", "a">>, carry |-> 0],
      [name |-> <<"b", "l", "o", "b">>, shape |-> "bare", repl |-> <<"b", "y", "t", "e", "a">>, carry |-> 0],
      [name |-> <<"m", "e", "d", "i", "u", "m", "b", "l", "o", "b">>, shape |-> "bare", repl |-> <<"b", "y", "t", "e", "a">>, carry |-> 0],
      [name |-> <<"l", "o", "n", "g", "b", "l", "o", "b">>, shape |-> "bare", repl |-> <<"b", "y", "t", "e", "a">>, carry |-> 0],
      [name |-> <<"t", "i", "n", "y", "t", "e", "x", "t">>, shape |-> "bare", repl |-> <<"t", "e", "x", "t">>, carry |-> 0],
      [name |-> <<"t", "e", "x", "t">>, shape |-> "bare", repl |-> <<"t", "e", "x", "t">>, carry |-> 0],
      [name |-> <<"m", "e", "d", "i", "u", "m", "t", "e", "x", "t">>, shape |-> "bare", repl |-> <<"t", "e", "x", "t">>, carry |-> 0],
      [name |-> <<"l", "o", "n", "g", "t", "e", "x", "t">>, shape |-> "bare", repl |-> <<"t", "e", "x", "t">>, carry |-> 0],
      [name |-> <<"j", "s", "o", "n">>, shape |-> "bare", repl |-> <<"j", "s", "o", "n", "b">>, carry |-> 0],
      [name |-> <<"e", "n", "u", "m">>, shape |-> "any", repl |-> <<"v", "a", "r", "c", "h", "a", "r", "(", "2", "5", "5", ")">>, carry |-> 0],
      [name |-> <<"s", "e", "t">>, shape |-> "any", repl |-> <<"t", "e", "x", "t", "[", "]">>, carry |-> 0]
    >>

\* re.fullmatch(pattern, s) for a pattern of the table, with its captured
\* groups.  The parameter part of a pattern has one of the shapes
\*   bare (none)   n1 \(\d+\)   c1 \((\d+)\)   c2 \((\d+),(\d+)\)
\*   one \(1\)     any \(.+\)
TypeFullMatch(e, s) ==
    LET n == Len(e.name)
        d1 == SkipDigits(s, n + 2)
        d2 == SkipDigits(s, d1 + 1)
        Yes(groups) == [ok |-> TRUE, groups |-> groups]
        No == [ok |-> FALSE, groups |-> <<>>]
    IN  IF ~StartsAt(s, e.name, 1) THEN No
        ELSE CASE e.shape = "bare" ->
                    IF Len(s) = n THEN Yes(<<>>) ELSE No
               [] e.shape \in {"n1", "c1"} ->
                    IF /\ StartsAt(s, <<"(">>, n + 1)
                       /\ d1 > n + 2
                       /\ StartsAt(s, <<")">>, d1)
                       /\ Len(s) = d1
                    THEN IF e.shape = "c1" THEN Yes(<<SubSeq(s, n + 2, d1 - 1)>>) ELSE Yes(<<>>)
                    ELSE No
               [] e.shape = "c2" ->
                    IF /\ StartsAt(s, <<"(">>, n + 1)
                       /\ d1 > n + 2
                       /\ StartsAt(s, <<",">>, d1)
                       /\ d2 > d1 + 1
                       /\ StartsAt(s, <<")">>, d2)
                       /\ Len(s) = d2
                    THEN Yes(<<SubSeq(s, n + 2, d1 - 1), SubSeq(s, d1 + 1, d2 - 1)>>)
                    ELSE No
               [] e.shape = "one" ->
                    IF s = e.name \o <<"(", "1", ")">> THEN Yes(<<>>) ELSE No
               [] e.shape = "any" ->
                    IF /\ StartsAt(s, <<"(">>, n + 1)
                       /\ Len(s) >= n + 3
                       /\ s[Len(s)] = ")"
                       /\ \A k \in (n + 2)..(Len(s) - 1) : s[k] # "\n"
                    THEN Yes(<<>>) ELSE No

\* re.sub(pattern, pg_type, s) when the pattern matches all of s: the
\* replacement with its \1 and \2 filled in
TypeSub(e, groups) ==
    CASE e.carry = 0 -> e.repl
      [] e.carry = 1 -> e.repl \o <<"(">> \o groups[1] \o <<")">>
      [] e.carry = 2 -> e.repl \o <<"(">> \o groups[1] \o <<",">> \o groups[2] \o <<")">>

RECURSIVE FindQuoted(_, _)
\* re.findall(r"'([^']*)'|\"([^\"]*)\"", s) from index i on, each match
\* reduced to v[0] or v[1]
FindQuoted(s, i) ==
    LET Opens == {p \in i..Len(s) :
                    /\ s[p] \in {"'", "\""}
                    /\ \E q \in (p + 1)..Len(s) : s[q] = s[p]}
    IN  IF Opens = {} THEN <<>>
        ELSE LET p == Min(Opens)
                 q == IndexOf(s, s[p], p + 1)
             IN  <<SubSeq(s, p + 1, q - 1)>> \o FindQuoted(s, q + 1)

\* re.match(r"enum\((.+)\)", s): the index of the closing parenthesis, 0 if
\* there is no match ("." does not match a line feed)
EnumClose(s) ==
    IF ~StartsAtIgnoreCase(s, <<"e", "n", "u", "m", "(">>, 1) THEN 0
    ELSE Max({j \in 7..Len(s) :
                /\ s[j] = ")"
                /\ \A k \in 6..(j - 1) : s[k] # "\n"} \cup {0})

DecimalPattern ==
    <<Alt(<<<<"d", "e", "c", "i", "m", "a", "l">>, <<"n", "u", "m", "e", "r", "i", "c">>>>), Ws0, Ch("("), Ws0, NumGroup, Ws0, Ch(","),
      Ws0, NumGroup, Ws0, Ch(")")>>

FloatPattern ==
    <<Alt(<<<<"f", "l", "o", "a", "t">>, <<"d", "o", "u", "b", "l", "e">>>>), Ws0, Ch("("), Ws0, Num, Ws0, Ch(","),
      Ws0, Num, Ws0, Ch(")")>>

\* enum_values of a type that is not an enum: Python's None, which the caller
\* does not tell apart from an empty list of values ("if enum_values:")
NoValues == <<>>

TypeResult(pg_type, enum_values, warned) ==
    [pg_type |-> pg_type, enum_values |-> enum_values, warned |-> warned]

\* the index of the last pattern of the table that fully matches s: the
\* table read against its declared order
LastMapping(s) ==
    LET M == {k \in DOMAIN TYPE_MAPPING : TypeFullMatch(TYPE_MAPPING[k], s).ok}
    IN  IF M = {} THEN 0 ELSE Max(M)

\* the index of the first pattern of the table, in declared order, that
\* fully matches s (0: none)
FirstMapping(s) ==
    LET M == {k \in DOMAIN TYPE_MAPPING : TypeFullMatch(TYPE_MAPPING[k], s).ok}
    IN  IF M = {} THEN 0 ELSE Min(M)

\* the mapper that returns an unknown type without the warning of line 105
MapTypeUnwarned(s) ==
    LET decimal_match == ReMatch(s, DecimalPattern)
        float_match == ReMatch(s, FloatPattern)
        k == FirstMapping(s)
    IN  IF decimal_match.ok
        THEN TypeResult(<<"n", "u", "m", "e", "r", "i", "c", "(">> \o decimal_match.groups[2] \o <<",">>
                          \o decimal_match.groups[3] \o <<")">>, NoValues, FALSE)
        ELSE IF float_match.ok
        THEN TypeResult(IF Lower(float_match.groups[1]) = <<"f", "l", "o", "a", "t">>
                        THEN <<"r", "e", "a", "l">> ELSE <<"d", "o", "u", "b", "l", "e", " ", "p", "r", "e", "c", "i", "s", "i", "o", "n">>, NoValues, FALSE)
        ELSE IF s = <<"j", "s", "o", "n">>
        THEN TypeResult(<<"j", "s", "o", "n", "b">>, NoValues, FALSE)
        ELSE IF EnumClose(s) # 0
        THEN TypeResult(<<"v", "a", "r", "c", "h", "a", "r", "(", "2", "5", "5", ")">>, FindQuoted(SubSeq(s, 6, EnumClose(s) - 1), 1), FALSE)
        ELSE IF StartsAt(s, <<"s", "e", "t", "(">>, 1)
        THEN TypeResult(<<"t", "e", "x", "t", "[", "]">>, NoValues, FALSE)
        ELSE IF k # 0
        THEN TypeResult(TypeSub(TYPE_MAPPING[k], TypeFullMatch(TYPE_MAPPING[k], s).groups),
                        NoValues, FALSE)
        ELSE TypeResult(s, NoValues, FALSE)

\* lines 72-106 on the type in lower case without the spaces around it
MapType(s) ==
    LET decimal_match == ReMatch(s, DecimalPattern)
        float_match == ReMatch(s, FloatPattern)
        k == FirstMapping(s)
    IN  IF decimal_match.ok
        THEN TypeResult(<<"n", "u", "m", "e", "r", "i", "c", "(">> \o decimal_match.groups[2] \o <<",">>
                          \o decimal_match.groups[3] \o <<")">>, NoValues, FALSE)
        ELSE IF float_match.ok
        THEN TypeResult(IF Lower(float_match.groups[1]) = <<"f", "l", "o", "a", "t">>
                        THEN <<"r", "e", "a", "l">> ELSE <<"d", "o", "u", "b", "l", "e", " ", "p", "r", "e", "c", "i", "s", "i", "o", "n">>, NoValues, FALSE)
        ELSE IF s = <<"j", "s", "o", "n">>
        THEN TypeResult(<<"j", "s", "o", "n", "b">>, NoValues, FALSE)
        ELSE IF EnumClose(s) # 0
        THEN TypeResult(<<"v", "a", "r", "c", "h", "a", "r", "(", "2", "5", "5", ")">>, FindQuoted(SubSeq(s, 6, EnumClose(s) - 1), 1), FALSE)
        ELSE IF StartsAt(s, <<"s", "e", "t", "(">>, 1)
        THEN TypeResult(<<"t", "e", "x", "t", "[", "]">>, NoValues, FALSE)
        ELSE IF k # 0
        THEN TypeResult(TypeSub(TYPE_MAPPING[k], TypeFullMatch(TYPE_MAPPING[k], s).groups),
                        NoValues, FALSE)
        ELSE TypeResult(s, NoValues, TRUE)

\* convert_data_type: (pg_type, enum_values), and whether the warning of an
\* unknown type was printed
convert_data_type(mysql_type_str) == MapType(Strip(Lower(mysql_type_str)))

-----------------------------------------------------------------------------
(* The Type Mapper applied to one type *)

\* type names no pattern of the table knows
UnknownTypeNames == {<<"g", "e", "o", "m", "e", "t", "r", "y">>, <<"p", "o", "i", "n", "t">>}

TypeNames == {TYPE_MAPPING[k].name : k \in DOMAIN TYPE_MAPPING} \cup UnknownTypeNames

\* what follows the name of a type
TypeParameters ==
    {<<>>, <<"(", "1", ")">>, <<"(", "8", ")">>, <<"(", "1", "1", ")">>, <<"(", "1", "0", ",", "2", ")">>, <<"(", "1", "0", ",", " ", "2", ")">>, <<"(", ")">>, <<"(", "'", "a", "'", ",", "'", "B", "'", ")">>, <<"(", "x", ")">>}

\* the types convert_data_type is called with: in lower case, in upper case
\* and with blanks around
TypeInputs ==
    {n \o p : n \in TypeNames, p \in TypeParameters}
      \cup {[i \in DOMAIN n |-> ToUpper(n[i])] \o p : n \in TypeNames, p \in TypeParameters}
      \cup {<<" ">> \o n \o <<"(", "1", "1", ")", " ">> : n \in TypeNames}

\* convert_data_type has not returned yet
TypePending == [pending |-> TRUE]

TypeInit ==
    /\ ty_input \in TypeInputs
    /\ ty_result = TypePending

\* one call of convert_data_type
ConvertType ==
    /\ ty_result = TypePending
    /\ ty_result' = convert_data_type(ty_input)
    /\ UNCHANGED ty_input

-----------------------------------------------------------------------------
(* Column Parser: DDLConverter._convert_column_definition *)

\* \b at index i: a word character on exactly one side
WordBoundary(s, i) ==
    (i > 1 /\ i - 1 <= Len(s) /\ IsWord(s[i - 1])) # (i >= 1 /\ i <= Len(s) /\ IsWord(s[i]))

\* 'needle' in s
Contains(s, needle) == \E k \in 1..(Len(s) + 1) : StartsAt(s, needle, k)

CharacterSetPattern == <<Ws1, Lit(<<"C", "H", "A", "R", "A", "C", "T", "E", "R">>), Ws1, Lit(<<"S", "E", "T">>), Ws1, Word>>
CollatePattern == <<Ws1, Lit(<<"C", "O", "L", "L", "A", "T", "E">>), Ws1, Word>>
ColumnPattern == <<OptQuote, Word, OptQuote, Ws1, UpTo("\n")>>

TypeTerminators ==
    {<<"N", "O", "T", " ", "N", "U", "L", "L">>, <<"N", "U", "L", "L">>, <<"D", "E", "F", "A", "U", "L", "T">>, <<"C", "O", "M", "M", "E", "N", "T">>, <<"A", "U", "T", "O", "_", "I", "N", "C", "R", "E", "M", "E", "N", "T">>, <<"P", "R", "I", "M", "A", "R", "Y">>, <<"U", "N", "I", "Q", "U", "E">>, <<"K", "E", "Y">>}

\* NOT\s+NULL or one of the other keywords at index i
TerminatorAt(s, i) ==
    \/ \E kw \in TypeTerminators \ {<<"N", "O", "T", " ", "N", "U", "L", "L">>} : StartsAtIgnoreCase(s, kw, i)
    \/ /\ StartsAtIgnoreCase(s, <<"N", "O", "T">>, i)
       /\ SkipSpaces(s, i + 3) > i + 3
       /\ StartsAtIgnoreCase(s, <<"N", "U", "L", "L">>, SkipSpaces(s, i + 3))

\* group 1 of the type pattern matched at the start of rest, or None:
\* the type word, its parenthesised parameters and UNSIGNED when present,
\* followed by a keyword, by the end of the text or by a comma
TypeMatch(rest) ==
    LET w == SkipWord(rest, 1)
        c == IndexOf(rest, ")", w + 1)
        p == IF StartsAt(rest, <<"(">>, w) /\ c > w + 1 /\ c <= Len(rest) THEN c + 1 ELSE w
        u0 == SkipSpaces(rest, p)
        u == IF u0 > p /\ StartsAtIgnoreCase(rest, <<"U", "N", "S", "I", "G", "N", "E", "D">>, u0) THEN u0 + 8 ELSE p
        t == SkipSpaces(rest, u)
    IN  IF /\ w > 1
           /\ \/ t > u /\ TerminatorAt(rest, t)
              \/ t > Len(rest)
              \/ StartsAt(rest, <<",">>, u)
        THEN SubSeq(rest, 1, u - 1)
        ELSE None

\* re.search(r'\bNOT\s+NULL\b', rest)
HasNotNull(rest) ==
    \E p \in 1..Len(rest) :
        /\ StartsAtIgnoreCase(rest, <<"N", "O", "T">>, p)
        /\ WordBoundary(rest, p)
        /\ SkipSpaces(rest, p + 3) > p + 3
        /\ StartsAtIgnoreCase(rest, <<"N", "U", "L", "L">>, SkipSpaces(rest, p + 3))
        /\ WordBoundary(rest, SkipSpaces(rest, p + 3) + 4)

\* re.search(r'\bAUTO_INCREMENT\b', rest)
HasAutoIncrement(rest) ==
    \E p \in 1..Len(rest) :
        /\ StartsAtIgnoreCase(rest, <<"A", "U", "T", "O", "_", "I", "N", "C", "R", "E", "M", "E", "N", "T">>, p)
        /\ WordBoundary(rest, p)
        /\ WordBoundary(rest, p + 14)

\* the index of the quote closing '(?:[^']|'')*' opened at index v (0: no
\* match).  A run of quotes of odd length ends the literal at its last
\* quote; when every run is even the last pair is given back and its first
\* quote closes the literal.
QuotedEnd(s, v) ==
    LET qc == s[v]
        Q == {k \in (v + 1)..Len(s) : s[k] = qc}
        Runs == {k \in Q : k = v + 1 \/ s[k - 1] # qc}
        RunEnd(r) == Min({k \in r..(Len(s) + 1) : k > Len(s) \/ s[k] # qc}) - 1
        Odd == {r \in Runs : (RunEnd(r) - r + 1) % 2 = 1}
    IN  IF Q = {} THEN 0
        ELSE IF Odd # {} THEN RunEnd(Min(Odd))
        ELSE Max(Q) - 1

\* the index after the value of DEFAULT\s+(...) when DEFAULT is at index p
\* and the value at index v (0: no match)
DefaultValueEnd(s, v) ==
    IF v > Len(s) THEN 0
    ELSE IF s[v] \in {"'", "\""} /\ QuotedEnd(s, v) # 0 THEN QuotedEnd(s, v) + 1
    ELSE LET e == Min({k \in v..(Len(s) + 1) : k > Len(s) \/ IsSpace(s[k]) \/ s[k] = ","})
         IN  IF e > v THEN e ELSE 0

\* group 1 of re.search(r"DEFAULT\s+(...)", rest), or None
DefaultMatch(rest) ==
    LET V(p) == SkipSpaces(rest, p + 7)
        P == {p \in 1..Len(rest) :
                /\ StartsAtIgnoreCase(rest, <<"D", "E", "F", "A", "U", "L", "T">>, p)
                /\ V(p) > p + 7
                /\ DefaultValueEnd(rest, V(p)) # 0}
    IN  IF P = {} THEN None
        ELSE SubSeq(rest, V(Min(P)), DefaultValueEnd(rest, V(Min(P))) - 1)

\* the special MySQL default values
DefaultValue(val) ==
    LET default_val == Strip(val)
    IN  IF [i \in DOMAIN default_val |-> ToUpper(default_val[i])] = <<"C", "U", "R", "R", "E", "N", "T", "_", "T", "I", "M", "E", "S", "T", "A", "M", "P">>
        THEN <<"C", "U", "R", "R", "E", "N", "T", "_", "T", "I", "M", "E", "S", "T", "A", "M", "P">>
        ELSE IF [i \in DOMAIN default_val |-> ToUpper(default_val[i])] = <<"N", "U", "L", "L">>
        THEN <<"N", "U", "L", "L">>
        ELSE IF default_val \in {<<"b", "'", "0", "'">>, <<"b", "\"", "0", "\"">>} THEN <<"'", "0", "'">>
        ELSE IF default_val \in {<<"b", "'", "1", "'">>, <<"b", "\"", "1", "\"">>} THEN <<"'", "1", "'">>
        ELSE default_val

\* group 2 of re.search(r"COMMENT\s+(['\"])(.+?)\1", rest), or None
CommentMatch(rest) ==
    LET Q(p) == SkipSpaces(rest, p + 7)
        Close(q) == {c \in (q + 2)..Len(rest) :
                        /\ rest[c] = rest[q]
                        /\ \A k \in (q + 1)..(c - 1) : rest[k] # "\n"}
        P == {p \in 1..Len(rest) :
                /\ StartsAtIgnoreCase(rest, <<"C", "O", "M", "M", "E", "N", "T">>, p)
                /\ Q(p) > p + 7
                /\ Q(p) <= Len(rest)
                /\ rest[Q(p)] \in {"'", "\""}
                /\ Close(Q(p)) # {}}
    IN  IF P = {} THEN None
        ELSE SubSeq(rest, Q(Min(P)) + 1, Min(Close(Q(Min(P)))) - 1)

\* seq_name of an auto-increment column
SequenceName(table_name, col_name) ==
    StripChars(table_name, {"\""}) \o <<"_">> \o StripChars(col_name, {"\""}) \o <<"_", "s", "e", "q">>

\* " CHECK (col IN ('v1', 'v2'))"
EnumCheck(col_name, enum_values) ==
    <<" ", "C", "H", "E", "C", "K", " ", "(">> \o col_name \o <<" ", "I", "N", " ", "(", "'">>
      \o Join([n \in DOMAIN enum_values |-> StrReplace(enum_values[n], <<"'">>, <<"'", "'">>)], <<"'", ",", " ", "'">>)
      \o <<"'", ")", ")">>

ColumnResult(col_def, seqs, cmts, warned) ==
    [col_def |-> col_def, sequences |-> seqs, comments |-> cmts, warned |-> warned]

\* the column is not emitted: return None
NoColumn == ColumnResult(None, {}, {}, FALSE)

\* the column whose sequence default is appended to the fragment built so
\* far, where line 312 builds the fragment again from the name and the type
ColumnOfTypeAppending(col_name, rest, table_name, type) ==
    LET plain == col_name \o <<" ">> \o type.pg_type
        with_null == IF HasNotNull(rest) THEN plain \o <<" ", "N", "O", "T", " ", "N", "U", "L", "L">> ELSE plain
        default_val == DefaultMatch(rest)
        with_default == IF default_val # None
                        THEN with_null \o <<" ", "D", "E", "F", "A", "U", "L", "T", " ">> \o DefaultValue(default_val)
                        ELSE with_null
        seq_name == SequenceName(table_name, col_name)
        serial == with_default \o <<" ", "D", "E", "F", "A", "U", "L", "T", " ", "n", "e", "x", "t", "v", "a", "l", "(", "'">> \o seq_name \o <<"'", ")">>
        with_serial == IF ~HasAutoIncrement(rest) THEN with_default
                       ELSE IF Contains(serial, <<"N", "O", "T", " ", "N", "U", "L", "L">>) THEN serial
                       ELSE serial \o <<" ", "N", "O", "T", " ", "N", "U", "L", "L">>
        check == IF type.enum_values # <<>>
                 THEN EnumCheck(col_name, type.enum_values)
                 ELSE <<>>
        comment_val == CommentMatch(rest)
    IN  ColumnResult(
            with_serial \o check,
            IF HasAutoIncrement(rest)
            THEN {<<"C", "R", "E", "A", "T", "E", " ", "S", "E", "Q", "U", "E", "N", "C", "E", " ">> \o seq_name \o <<";">>} ELSE {},
            IF comment_val # None
            THEN {<<"C", "O", "M", "M", "E", "N", "T", " ", "O", "N", " ", "C", "O", "L", "U", "M", "N", " ">> \o table_name \o <<".">> \o col_name
                    \o <<" ", "I", "S", " ", "'">> \o StrReplace(comment_val, <<"'">>, <<"'", "'">>) \o <<"'", ";">>}
            ELSE {},
            type.warned)

\* lines 287-330: the fragment of the column col_name whose clause, after
\* the name, is rest and whose type was converted to type
ColumnOfType(col_name, rest, table_name, type) ==
    LET plain == col_name \o <<" ">> \o type.pg_type
        with_null == IF HasNotNull(rest) THEN plain \o <<" ", "N", "O", "T", " ", "N", "U", "L", "L">> ELSE plain
        default_val == DefaultMatch(rest)
        with_default == IF default_val # None
                        THEN with_null \o <<" ", "D", "E", "F", "A", "U", "L", "T", " ">> \o DefaultValue(default_val)
                        ELSE with_null
        seq_name == SequenceName(table_name, col_name)
        serial == plain \o <<" ", "D", "E", "F", "A", "U", "L", "T", " ", "n", "e", "x", "t", "v", "a", "l", "(", "'">> \o seq_name \o <<"'", ")">>
        with_serial == IF ~HasAutoIncrement(rest) THEN with_default
                       ELSE IF Contains(serial, <<"N", "O", "T", " ", "N", "U", "L", "L">>) THEN serial
                       ELSE serial \o <<" ", "N", "O", "T", " ", "N", "U", "L", "L">>
        check == IF type.enum_values # <<>>
                 THEN EnumCheck(col_name, type.enum_values)
                 ELSE <<>>
        comment_val == CommentMatch(rest)
    IN  ColumnResult(
            with_serial \o check,
            IF HasAutoIncrement(rest)
            THEN {<<"C", "R", "E", "A", "T", "E", " ", "S", "E", "Q", "U", "E", "N", "C", "E", " ">> \o seq_name \o <<";">>} ELSE {},
            IF comment_val # None
            THEN {<<"C", "O", "M", "M", "E", "N", "T", " ", "O", "N", " ", "C", "O", "L", "U", "M", "N", " ">> \o table_name \o <<".">> \o col_name
                    \o <<" ", "I", "S", " ", "'">> \o StrReplace(comment_val, <<"'">>, <<"'", "'">>) \o <<"'", ";">>}
            ELSE {},
            type.warned)

\* lines 281-285: the type of the column, when the type pattern matched
ColumnOfTypeMatch(col_name, rest, table_name, type_match) ==
    IF type_match = None THEN NoColumn
    ELSE ColumnOfType(col_name, rest, table_name,
                      convert_data_type(Strip(StrReplace(type_match, <<" ", "U", "N", "S", "I", "G", "N", "E", "D">>, <<>>))))

\* line 280: the type pattern on the rest of the clause
ColumnOfRest(col_name, rest, table_name) ==
    ColumnOfTypeMatch(col_name, rest, table_name, TypeMatch(rest))

\* lines 268-280: the name of the column and the rest of the clause, without
\* its CHARACTER SET and COLLATE, when the column pattern matched
ColumnOfMatch(col_match, table_name) ==
    IF ~col_match.ok THEN NoColumn
    ELSE ColumnOfRest(quote_identifier(col_match.groups[1]),
                      ReDelete(ReDelete(col_match.groups[2], CharacterSetPattern),
                               CollatePattern),
                      table_name)

\* _convert_column_definition: the column fragment (None: not a column), the
\* sequence and comment statements it adds to the sets of the converter,
\* and whether a warning was printed
convert_column_definition(col_def_str, table_name) ==
    ColumnOfMatch(ReMatch(Strip(col_def_str), ColumnPattern), table_name)

-----------------------------------------------------------------------------
(* Table Converter: DDLConverter.convert_create_table *)

RECURSIVE QuotedFrom(_, _)
\* the indices from i on that the lexer of sqlparse makes part of a quoted
\* string or a quoted name, the quotes included
QuotedFrom(s, i) ==
    LET O == {p \in i..Len(s) : s[p] \in {"'", "\"", BackTick}}
    IN  IF O = {} THEN {}
        ELSE LET p == Min(O)
                 q == IndexOf(s, s[p], p + 1)
             IN  IF q > Len(s) THEN QuotedFrom(s, p + 1)
                 ELSE (p..q) \cup QuotedFrom(s, q + 1)

\* sqlparse.parse(text)[0] as text: the first statement, up to and including
\* its semicolon
FirstStatement(text) ==
    LET Semi == {p \in DOMAIN text : text[p] = ";"} \ QuotedFrom(text, 1)
    IN  IF Semi = {} THEN text ELSE SubSeq(text, 1, Min(Semi))

\* the first sqlparse.sql.Parenthesis among statement.tokens, as text (None:
\* there is none): the first opening parenthesis outside quotes that has a
\* matching closing one, up to that one
Parenthesis(stmt) ==
    LET Out == DOMAIN stmt \ QuotedFrom(stmt, 1)
        Opens == {p \in Out : stmt[p] = "("}
        Closes == {p \in Out : stmt[p] = ")"}
        Match(o) == {c \in Closes :
                        /\ c > o
                        /\ Cardinality({p \in Opens : o < p /\ p < c})
                             = Cardinality({p \in Closes : o < p /\ p < c})}
        Matched == {o \in Opens : Match(o) # {}}
    IN  IF Matched = {} THEN None
        ELSE SubSeq(stmt, Min(Matched), Min(Match(Min(Matched))))

CreateTablePattern ==
    <<Lit(<<"C", "R", "E", "A", "T", "E">>), Ws1, Lit(<<"T", "A", "B", "L", "E">>), Ws1, OptQuote, Word, OptQuote>>

CreateTableIfNotExistsPattern ==
    <<Lit(<<"C", "R", "E", "A", "T", "E">>), Ws1, Lit(<<"T", "A", "B", "L", "E">>), Ws1, Lit(<<"I", "F">>), Ws1, Lit(<<"N", "O", "T">>), Ws1,
      Lit(<<"E", "X", "I", "S", "T", "S">>), Ws1, OptQuote, Word, OptQuote>>

\* re.search of the table pattern: the optional IF NOT EXISTS is taken when
\* the rest of the pattern matches after it
TableMatch(stmt_str) ==
    LET P == {p \in DOMAIN stmt_str :
                MatchFrom(stmt_str, p, p, CreateTablePattern, 1, <<>>).ok}
        long == MatchFrom(stmt_str, Min(P), Min(P), CreateTableIfNotExistsPattern, 1, <<>>)
    IN  IF P = {} THEN NoMatch
        ELSE IF long.ok THEN long
        ELSE MatchFrom(stmt_str, Min(P), Min(P), CreateTablePattern, 1, <<>>)

PrimaryKeyPattern == <<Lit(<<"P", "R", "I", "M", "A", "R", "Y">>), Ws1, Lit(<<"K", "E", "Y">>), Ws0, Ch("("), UpTo(")"), Ch(")")>>
UniqueKeyPattern ==
    <<Lit(<<"U", "N", "I", "Q", "U", "E">>), Ws1, Lit(<<"K", "E", "Y">>), Ws1, OptQuote, Word, OptQuote, Ws0,
      Ch("("), UpTo(")"), Ch(")")>>
KeyPattern ==
    <<Lit(<<"K", "E", "Y">>), Ws1, OptQuote, Word, OptQuote, Ws0, Ch("("), UpTo(")"), Ch(")")>>
ForeignKeyPattern ==
    <<Lit(<<"C", "O", "N", "S", "T", "R", "A", "I", "N", "T">>), Ws1, OptQuote, Word, OptQuote, Ws1, Lit(<<"F", "O", "R", "E", "I", "G", "N">>), Ws1,
      Lit(<<"K", "E", "Y">>), Ws0, Ch("("), UpTo(")"), Ch(")"), Ws1, Lit(<<"R", "E", "F", "E", "R", "E", "N", "C", "E", "S">>), Ws1,
      OptQuote, Word, OptQuote, Ws0, Ch("("), UpTo(")"), Ch(")")>>

\* what one CREATE TABLE statement has produced so far
NoClauses ==
    [column_definitions |-> <<>>, primary_key_def |-> None,
     indexes |-> {}, foreign_keys |-> <<>>, sequences |-> {}, comments |-> {},
     warnings |-> 0]

IndexStatement(kind, index_name, table_name, cols) ==
    kind \o index_name \o <<" ", "O", "N", " ">> \o table_name \o <<" ", "(">> \o QuotedColumns(cols) \o <<")", ";">>

\* lines 161-165: a PRIMARY KEY clause
AddPrimaryKey(acc, pk_match) ==
    IF pk_match.ok
    THEN [acc EXCEPT !.primary_key_def =
            <<"P", "R", "I", "M", "A", "R", "Y", " ", "K", "E", "Y", " ", "(">> \o QuotedColumns(pk_match.groups[1]) \o <<")">>]
    ELSE acc

\* lines 168-181: a UNIQUE KEY or KEY clause
AddIndex(acc, kind, table_name, key_match) ==
    IF key_match.ok
    THEN [acc EXCEPT !.indexes = @ \cup
            {IndexStatement(kind, quote_identifier(key_match.groups[1]),
                            table_name, key_match.groups[2])}]
    ELSE acc

\* lines 184-193: a CONSTRAINT clause
AddForeignKey(acc, table_name, fk_match) ==
    IF fk_match.ok
    THEN [acc EXCEPT !.foreign_keys = Append(@,
            <<"A", "L", "T", "E", "R", " ", "T", "A", "B", "L", "E", " ">> \o table_name \o <<" ", "A", "D", "D", " ", "C", "O", "N", "S", "T", "R", "A", "I", "N", "T", " ">>
              \o quote_identifier(fk_match.groups[1])
              \o <<" ", "F", "O", "R", "E", "I", "G", "N", " ", "K", "E", "Y", " ", "(">> \o QuotedColumns(fk_match.groups[2])
              \o <<")", " ", "R", "E", "F", "E", "R", "E", "N", "C", "E", "S", " ">> \o quote_identifier(fk_match.groups[3])
              \o <<" ", "(">> \o QuotedColumns(fk_match.groups[4]) \o <<")", ";">>)]
    ELSE acc

\* lines 196-199: any other clause is a column
AddColumn(acc, col) ==
    [acc EXCEPT
        !.column_definitions = IF col.col_def # None THEN Append(@, col.col_def) ELSE @,
        !.sequences = @ \cup col.sequences,
        !.comments = @ \cup col.comments,
        !.warnings = @ + (IF col.warned THEN 1 ELSE 0)]

\* lines 157-199 on the item without the spaces around it
ConvertStripped(item, table_name, acc) ==
    IF item = <<>> THEN acc
    ELSE IF ReMatch(item, <<Lit(<<"P", "R", "I", "M", "A", "R", "Y">>), Ws1, Lit(<<"K", "E", "Y">>)>>).ok
    THEN AddPrimaryKey(acc, ReSearch(item, PrimaryKeyPattern))
    ELSE IF ReMatch(item, <<Lit(<<"U", "N", "I", "Q", "U", "E">>), Ws1, Lit(<<"K", "E", "Y">>)>>).ok
    THEN AddIndex(acc, <<"C", "R", "E", "A", "T", "E", " ", "U", "N", "I", "Q", "U", "E", " ", "I", "N", "D", "E", "X", " ">>, table_name, ReSearch(item, UniqueKeyPattern))
    ELSE IF ReMatch(item, <<Lit(<<"K", "E", "Y">>), Ws1>>).ok
    THEN AddIndex(acc, <<"C", "R", "E", "A", "T", "E", " ", "I", "N", "D", "E", "X", " ">>, table_name, ReSearch(item, KeyPattern))
    ELSE IF ReMatch(item, <<Lit(<<"C", "O", "N", "S", "T", "R", "A", "I", "N", "T">>)>>).ok
    THEN AddForeignKey(acc, table_name, ReSearch(item, ForeignKeyPattern))
    ELSE AddColumn(acc, convert_column_definition(item, table_name))

\* one pass of the loop over the items of the parenthesis
ConvertItem(raw, table_name, acc) == ConvertStripped(Strip(raw), table_name, acc)

RECURSIVE ConvertItems(_, _, _, _)
\* the loop over the items, from item k on
ConvertItems(items, k, table_name, acc) ==
    IF k > Len(items) THEN acc
    ELSE ConvertItems(items, k + 1, table_name, ConvertItem(items[k], table_name, acc))

\* convert_create_table returns nothing and changes nothing
NoTable ==
    [pg_statements |-> <<>>, indexes |-> {}, foreign_keys |-> <<>>,
     sequences |-> {}, comments |-> {}, warnings |-> 0]

\* lines 202-209: the CREATE TABLE statement of the clauses converted
TableOfClauses(table_name, done) ==
    [pg_statements |->
        <<<<"C", "R", "E", "A", "T", "E", " ", "T", "A", "B", "L", "E", " ">> \o table_name \o <<" ", "(", "\n", " ", " ", " ", " ">>
            \o Join(IF done.primary_key_def # None
                    THEN Append(done.column_definitions, done.primary_key_def)
                    ELSE done.column_definitions,
                    <<",", "\n", " ", " ", " ", " ">>)
            \o <<"\n", ")", ";">>>>,
     indexes |-> done.indexes,
     foreign_keys |-> done.foreign_keys,
     sequences |-> done.sequences,
     comments |-> done.comments,
     warnings |-> done.warnings]

\* lines 130-209: the table table_name with the parenthesis of the statement
TableOfParenthesis(table_name, parenthesis) ==
    IF parenthesis = None THEN NoTable
    ELSE TableOfClauses(table_name,
            ConvertItems(split_by_comma(SubSeq(parenthesis, 2, Len(parenthesis) - 1)),
                         1, table_name, NoClauses))

\* lines 125-128: the name of the table, when the table pattern matched
TableOfMatch(table_match, statement) ==
    IF ~table_match.ok THEN NoTable
    ELSE TableOfParenthesis(quote_identifier(table_match.groups[1]), Parenthesis(statement))

\* convert_create_table on the parsed statement: the statements it returns
\* and what it adds to the sets and the list of the converter
convert_create_table(statement) == TableOfMatch(TableMatch(statement), statement)

-----------------------------------------------------------------------------
(* The Table Converter applied to one statement: the table t with a first  *)
(* and a last column, a primary key and, between them, one clause          *)

\* an enumerated type written with the values vs: the keyword and the values
\* in single quotes, a quote inside a value doubled
EnumType(keyword, vs) ==
    keyword \o <<"(", "'">>
      \o Join([n \in DOMAIN vs |-> StrReplace(vs[n], <<"'">>, <<"'", "'">>)], <<"'", ",", "'">>)
      \o <<"'", ")">>

\* the value lists of the enumerated types
EnumValueLists ==
    {<<<<"a">>, <<"b">>>>, <<<<"A">>, <<"b">>>>, <<<<"x">>>>, <<<<"i", "t", "'", "s">>, <<"o", "k">>>>, <<<<"a", ",", "b">>, <<"c", " ", "d">>>>}

\* a column clause: its name, its type, the declared values of an enumerated
\* type, and the modifiers after the type
Column(name, type, values, null, default, auto, auto_first) ==
    [name |-> name, type |-> type, values |-> values, null |-> null,
     default |-> default, auto |-> auto, auto_first |-> auto_first]

PlainTypes ==
    {<<"i", "n", "t", "(", "1", "1", ")">>, <<"I", "N", "T">>, <<"b", "i", "g", "i", "n", "t", "(", "2", "0", ")">>, <<"t", "i", "n", "y", "i", "n", "t", "(", "1", ")">>, <<"v", "a", "r", "c", "h", "a", "r", "(", "5", "0", ")">>, <<"d", "e", "c", "i", "m", "a", "l", "(", "1", "0", ",", "2", ")">>,
     <<"d", "a", "t", "e", "t", "i", "m", "e">>, <<"g", "e", "o", "m", "e", "t", "r", "y">>, <<"G", "E", "O", "M", "E", "T", "R", "Y">>, <<"p", "o", "i", "n", "t">>, <<"Y", "e", "a", "r", "(", "4", ")">>}

Nullabilities == {<<>>, <<" ", "N", "O", "T", " ", "N", "U", "L", "L">>, <<" ", "N", "U", "L", "L">>, <<" ", "n", "o", "t", " ", " ", "n", "u", "l", "l">>}

Defaults == {<<>>, <<" ", "D", "E", "F", "A", "U", "L", "T", " ", "0">>, <<" ", "D", "E", "F", "A", "U", "L", "T", " ", "'", "x", "'">>, <<" ", "D", "E", "F", "A", "U", "L", "T", " ", "N", "U", "L", "L">>, <<" ", "d", "e", "f", "a", "u", "l", "t", " ", "C", "U", "R", "R", "E", "N", "T", "_", "T", "I", "M", "E", "S", "T", "A", "M", "P">>}

AutoIncrements == {<<>>, <<" ", "A", "U", "T", "O", "_", "I", "N", "C", "R", "E", "M", "E", "N", "T">>, <<" ", "a", "u", "t", "o", "_", "i", "n", "c", "r", "e", "m", "e", "n", "t">>}

ColumnClauses ==
    {Column(<<BackTick, "c", BackTick>>, t, <<>>, n, d, a, f) :
        t \in PlainTypes, n \in Nullabilities, d \in Defaults,
        a \in AutoIncrements, f \in {FALSE}}
      \cup {Column(<<BackTick, "c", BackTick>>, t, <<>>, n, d, a, TRUE) :
              t \in PlainTypes, n \in Nullabilities, d \in Defaults,
              a \in {<<" ", "A", "U", "T", "O", "_", "I", "N", "C", "R", "E", "M", "E", "N", "T">>}}
      \cup {Column(<<"c">>, EnumType(k, vs), vs, n, d, a, FALSE) :
              k \in {<<"e", "n", "u", "m">>, <<"E", "N", "U", "M">>}, vs \in EnumValueLists,
              n \in {<<>>, <<" ", "N", "O", "T", " ", "N", "U", "L", "L">>}, d \in {<<>>, <<" ", "D", "E", "F", "A", "U", "L", "T", " ", "'", "x", "'">>},
              a \in {<<>>, <<" ", "A", "U", "T", "O", "_", "I", "N", "C", "R", "E", "M", "E", "N", "T">>}}

\* the unsigned modifier as a clause may write it
Unsigneds == {<<" ", "U", "N", "S", "I", "G", "N", "E", "D">>, <<" ", "u", "n", "s", "i", "g", "n", "e", "d">>, <<" ", "U", "n", "s", "i", "g", "n", "e", "d">>}

\* column clauses whose type carries the unsigned modifier: the modifier is
\* the first of the modifiers after the type
UnsignedClauses ==
    {Column(<<BackTick, "c", BackTick>>, t, <<>>, u \o n, d, a, FALSE) :
        t \in {<<"i", "n", "t", "(", "1", "1", ")">>, <<"I", "N", "T">>, <<"b", "i", "g", "i", "n", "t", "(", "2", "0", ")">>, <<"t", "i", "n", "y", "i", "n", "t", "(", "1", ")">>, <<"d", "e", "c", "i", "m", "a", "l", "(", "1", "0", ",", "2", ")">>},
        u \in Unsigneds,
        n \in {<<>>, <<" ", "N", "O", "T", " ", "N", "U", "L", "L">>}, d \in {<<>>, <<" ", "D", "E", "F", "A", "U", "L", "T", " ", "0">>},
        a \in {<<>>, <<" ", "A", "U", "T", "O", "_", "I", "N", "C", "R", "E", "M", "E", "N", "T">>}}

\* clauses that are neither a key, nor a named constraint, nor a column
OtherClauses ==
    {<<"F", "O", "R", "E", "I", "G", "N", " ", "K", "E", "Y", " ", "(", BackTick, "a", BackTick, ")", " ", "R", "E", "F", "E", "R", "E", "N", "C", "E", "S", " ", BackTick, "t", "2", BackTick, " ", "(", BackTick, "i", "d", BackTick, ")">>, <<"C", "H", "E", "C", "K", " ", "(", BackTick, "a", BackTick, " ", ">", " ", "0", ")">>,
     <<"F", "U", "L", "L", "T", "E", "X", "T", " ", "K", "E", "Y", " ", BackTick, "f", "t", BackTick, " ", "(", BackTick, "z", BackTick, ")">>, <<"I", "N", "D", "E", "X", " ", BackTick, "i", BackTick, " ", "(", BackTick, "a", BackTick, ")">>, <<BackTick, "c", BackTick>>,
     <<BackTick, "c", BackTick, " ", "i", "n", "t", "(", "1", "1", ")", " ", "u", "n", "s", "i", "g", "n", "e", "d", " ", "z", "e", "r", "o", "f", "i", "l", "l", " ", "N", "O", "T", " ", "N", "U", "L", "L">>,
     <<BackTick, "c", BackTick, " ", "i", "n", "t", "(", "1", "1", ")", " ", "G", "E", "N", "E", "R", "A", "T", "E", "D", " ", "A", "L", "W", "A", "Y", "S", " ", "A", "S", " ", "(", BackTick, "a", BackTick, ")", " ", "S", "T", "O", "R", "E", "D">>}

\* the text of a clause
ClauseText(c) ==
    IF c.auto_first
    THEN c.name \o <<" ">> \o c.type \o c.auto \o c.null \o c.default
    ELSE c.name \o <<" ">> \o c.type \o c.null \o c.default \o c.auto

\* a clause that is no column, as a clause without a name
Other(text) == Column(<<>>, text, <<>>, <<>>, <<>>, <<>>, FALSE)

\* the statement collected by _process_schema for the table t with the clause
TableStatement(clause_text) ==
    <<"C", "R", "E", "A", "T", "E", " ", "T", "A", "B", "L", "E", " ", BackTick, "t", BackTick, " ", "(", "\n", " ", " ", BackTick, "a", BackTick, " ", "i", "n", "t", "(", "1", "1", ")", " ", "N", "O", "T", " ", "N", "U", "L", "L", ",", "\n", " ", " ">> \o clause_text
      \o <<",", "\n", " ", " ", BackTick, "z", BackTick, " ", "t", "e", "x", "t", ",", "\n", " ", " ", "P", "R", "I", "M", "A", "R", "Y", " ", "K", "E", "Y", " ", "(", BackTick, "a", BackTick, ")", "\n", ")", " ", "E", "N", "G", "I", "N", "E", "=", "I", "n", "n", "o", "D", "B", ";", "\n">>

\* convert_create_table has not returned yet
TablePending == [pending |-> TRUE]

TableInit ==
    /\ tb_input \in ColumnClauses \cup UnsignedClauses \cup {Other(t) : t \in OtherClauses}
    /\ tb_result = TablePending

\* lines 390-392: the statement is parsed and convert_create_table called
ConvertTable ==
    /\ tb_result = TablePending
    /\ tb_result' = convert_create_table(FirstStatement(TableStatement(
                        IF tb_input.name = <<>> THEN tb_input.type
                        ELSE ClauseText(tb_input))))
    /\ UNCHANGED tb_input

-----------------------------------------------------------------------------
(* Schema Assembler: DDLConverter._process_schema *)

\* a character of the comments of the output written in Chinese
Han == "U+4E00"

\* the printable ASCII characters, from code point 32 on
Ascii ==
    <<" ", "!", "\"", "#", "$", "%", "&", "'", "(", ")", "*", "+", ",", "-", ".", "/", "0", "1", "2", "3", "4", "5", "6", "7", "8", "9", ":", ";", "<", "=", ">", "?", "@", "A", "B", "C", "D", "E", "F", "G", "H", "I", "J", "K", "L", "M", "N", "O", "P", "Q", "R", "S", "T", "U", "V", "W", "X", "Y", "Z", "[", "\\", "]", "^", "_", BackTick, "a", "b", "c", "d", "e", "f", "g", "h", "i", "j", "k", "l", "m", "n", "o", "p", "q", "r", "s", "t", "u", "v", "w", "x", "y", "z", "{", "|", "}", "~">>

\* ord(c)
CodePoint(c) ==
    IF c = "\t" THEN 9
    ELSE IF c = "\n" THEN 10
    ELSE IF c = "\r" THEN 13
    ELSE IF c = EAcute THEN 233
    ELSE IF c = Han THEN 19968
    ELSE 31 + CHOOSE k \in DOMAIN Ascii : Ascii[k] = c

\* a < b for str: at the first index where they differ, or a a proper prefix
StrLess(a, b) ==
    LET D == {k \in 1..Min({Len(a), Len(b)}) : a[k] # b[k]}
    IN  IF D = {} THEN Len(a) < Len(b)
        ELSE CodePoint(a[Min(D)]) < CodePoint(b[Min(D)])

\* the set in descending order: sorted(S, reverse=True)
SortedDescending(S) ==
    [n \in 1..Cardinality(S) |->
        CHOOSE s \in S : Cardinality({t \in S : StrLess(s, t)}) = n - 1]

\* sorted(list(S)) for a set of str
Sorted(S) ==
    [n \in 1..Cardinality(S) |->
        CHOOSE s \in S : Cardinality({t \in S : StrLess(t, s)}) = n - 1]

\* datetime.datetime.now().strftime(...): one character of the model
Clocks == {"2024-01-01 00:00:00", "2024-12-31 23:59:59"}

\* a mutant: the foreign keys are written before the tables
SchemaTextKeysFirst(clock, seqs, tables, idxs, fks, cmts) ==
    <<"-", "-", " ", "=", "=", "=", "=", "=", " ", "P", "o", "s", "t", "g", "r", "e", "S", "Q", "L", " ", Han, Han, Han, " ", "=", "=", "=", "=", "=", "\n">>
      \o <<"-", "-", " ", Han, "M", "y", "S", "Q", "L", Han, Han, Han, Han, "\n">>
      \o <<"-", "-", " ", Han, Han, Han, Han, ":", " ">> \o <<clock>> \o <<"\n">>
      \o <<"-", "-", " ", "\n">>
      \o <<"-", "-", " ", Han, Han, ":", " ", Han, Han, Han, Han, Han, Han, Han, Han, Han, "(", "D", "D", "L", ")", ",", Han, Han, Han, Han, Han, "(", "I", "N", "S", "E", "R", "T", ")", "\n">>
      \o <<"-", "-", " ", Han, Han, Han, Han, Han, " ", "e", "x", "t", "r", "a", "c", "t", "_", "a", "n", "d", "_", "s", "p", "l", "i", "t", "_", "i", "n", "s", "e", "r", "t", "s", ".", "p", "y", " ", Han, Han, Han, Han, "\n", "\n">>
      \o <<"-", "-", " ", "=", "=", "=", "=", "=", " ", "S", "E", "Q", "U", "E", "N", "C", "E", "S", " ", "=", "=", "=", "=", "=", "\n">>
      \o Join(Sorted(seqs), <<"\n">>)
      \o <<"\n", "\n", "-", "-", " ", "=", "=", "=", "=", "=", " ", "F", "O", "R", "E", "I", "G", "N", " ", "K", "E", "Y", "S", " ", "=", "=", "=", "=", "=", "\n">>
      \o <<"-", "-", " ", Han, Han, Han, Han, Han, Han, Han, Han, Han, Han, Han, Han, Han, Han, Han, ",", Han, Han, Han, Han, Han, Han, Han, Han, "\n">>
      \o Join(fks, <<"\n">>)
      \o <<"\n", "\n", "-", "-", " ", "=", "=", "=", "=", "=", " ", "T", "A", "B", "L", "E", "S", " ", "=", "=", "=", "=", "=", "\n">>
      \o Join(tables, <<"\n">>)
      \o <<"\n", "\n", "-", "-", " ", "=", "=", "=", "=", "=", " ", "I", "N", "D", "E", "X", "E", "S", " ", "=", "=", "=", "=", "=", "\n">>
      \o Join(Sorted(idxs), <<"\n">>)
      \o <<"\n", "\n", "-", "-", " ", "=", "=", "=", "=", "=", " ", "C", "O", "M", "M", "E", "N", "T", "S", " ", "=", "=", "=", "=", "=", "\n">>
      \o Join(Sorted(cmts), <<"\n">>)
      \o <<"\n">>

\* the text written to the schema file
SchemaText(clock, seqs, tables, idxs, fks, cmts) ==
    <<"-", "-", " ", "=", "=", "=", "=", "=", " ", "P", "o", "s", "t", "g", "r", "e", "S", "Q", "L", " ", Han, Han, Han, " ", "=", "=", "=", "=", "=", "\n">>
      \o <<"-", "-", " ", Han, "M", "y", "S", "Q", "L", Han, Han, Han, Han, "\n">>
      \o <<"-", "-", " ", Han, Han, Han, Han, ":", " ">> \o <<clock>> \o <<"\n">>
      \o <<"-", "-", " ", "\n">>
      \o <<"-", "-", " ", Han, Han, ":", " ", Han, Han, Han, Han, Han, Han, Han, Han, Han, "(", "D", "D", "L", ")", ",", Han, Han, Han, Han, Han, "(", "I", "N", "S", "E", "R", "T", ")", "\n">>
      \o <<"-", "-", " ", Han, Han, Han, Han, Han, " ", "e", "x", "t", "r", "a", "c", "t", "_", "a", "n", "d", "_", "s", "p", "l", "i", "t", "_", "i", "n", "s", "e", "r", "t", "s", ".", "p", "y", " ", Han, Han, Han, Han, "\n", "\n">>
      \o <<"-", "-", " ", "=", "=", "=", "=", "=", " ", "S", "E", "Q", "U", "E", "N", "C", "E", "S", " ", "=", "=", "=", "=", "=", "\n">>
      \o Join(Sorted(seqs), <<"\n">>)
      \o <<"\n", "\n", "-", "-", " ", "=", "=", "=", "=", "=", " ", "T", "A", "B", "L", "E", "S", " ", "=", "=", "=", "=", "=", "\n">>
      \o Join(tables, <<"\n">>)
      \o <<"\n", "\n", "-", "-", " ", "=", "=", "=", "=", "=", " ", "I", "N", "D", "E", "X", "E", "S", " ", "=", "=", "=", "=", "=", "\n">>
      \o Join(Sorted(idxs), <<"\n">>)
      \o <<"\n", "\n", "-", "-", " ", "=", "=", "=", "=", "=", " ", "F", "O", "R", "E", "I", "G", "N", " ", "K", "E", "Y", "S", " ", "=", "=", "=", "=", "=", "\n">>
      \o <<"-", "-", " ", Han, Han, Han, Han, Han, Han, Han, Han, Han, Han, Han, Han, Han, Han, Han, ",", Han, Han, Han, Han, Han, Han, Han, Han, "\n">>
      \o Join(fks, <<"\n">>)
      \o <<"\n", "\n", "-", "-", " ", "=", "=", "=", "=", "=", " ", "C", "O", "M", "M", "E", "N", "T", "S", " ", "=", "=", "=", "=", "=", "\n">>
      \o Join(Sorted(cmts), <<"\n">>)
      \o <<"\n">>

\* bound of the model: the number of blocks of lines in the input file
MaxTables == 3

\* lines that are no part of a table
BlockPreamble ==
    <<<<"S", "E", "T", " ", "N", "A", "M", "E", "S", " ", "u", "t", "f", "8", "m", "b", "4", ";", "\n">>,
      <<"D", "R", "O", "P", " ", "T", "A", "B", "L", "E", " ", "I", "F", " ", "E", "X", "I", "S", "T", "S", " ", BackTick, "t", "1", BackTick, ";", "\n">>>>

\* t1 and t2 refer to each other and each declares a key named idx
BlockT1 ==
    <<<<"C", "R", "E", "A", "T", "E", " ", "T", "A", "B", "L", "E", " ", BackTick, "t", "1", BackTick, " ", "(", "\n">>,
      <<" ", " ", BackTick, "i", "d", BackTick, " ", "i", "n", "t", "(", "1", "1", ")", " ", "N", "O", "T", " ", "N", "U", "L", "L", " ", "A", "U", "T", "O", "_", "I", "N", "C", "R", "E", "M", "E", "N", "T", ",", " ", BackTick, "c", BackTick, " ", "i", "n", "t", "(", "1", "1", ")", " ", "D", "E", "F", "A", "U", "L", "T", " ", "N", "U", "L", "L", ",", " ", "P", "R", "I", "M", "A", "R", "Y", " ", "K", "E", "Y", " ", "(", BackTick, "i", "d", BackTick, ")", ",", " ", "K", "E", "Y", " ", BackTick, "i", "d", "x", BackTick, " ", "(", BackTick, "c", BackTick, ")", ",", " ", "C", "O", "N", "S", "T", "R", "A", "I", "N", "T", " ", BackTick, "f", "k", "1", BackTick, " ", "F", "O", "R", "E", "I", "G", "N", " ", "K", "E", "Y", " ", "(", BackTick, "c", BackTick, ")", " ", "R", "E", "F", "E", "R", "E", "N", "C", "E", "S", " ", BackTick, "t", "2", BackTick, " ", "(", BackTick, "i", "d", BackTick, ")", "\n">>,
      <<")", " ", "E", "N", "G", "I", "N", "E", "=", "I", "n", "n", "o", "D", "B", ";", "\n">>>>

BlockT2 ==
    <<<<"C", "R", "E", "A", "T", "E", " ", "T", "A", "B", "L", "E", " ", BackTick, "t", "2", BackTick, " ", "(", "\n">>,
      <<" ", " ", BackTick, "i", "d", BackTick, " ", "i", "n", "t", "(", "1", "1", ")", " ", "N", "O", "T", " ", "N", "U", "L", "L", " ", "A", "U", "T", "O", "_", "I", "N", "C", "R", "E", "M", "E", "N", "T", ",", "\n">>,
      <<" ", " ", BackTick, "c", BackTick, " ", "i", "n", "t", "(", "1", "1", ")", " ", "D", "E", "F", "A", "U", "L", "T", " ", "N", "U", "L", "L", " ", "C", "O", "M", "M", "E", "N", "T", " ", "'", "o", "w", "n", "e", "r", "'", ",", "\n">>,
      <<" ", " ", "P", "R", "I", "M", "A", "R", "Y", " ", "K", "E", "Y", " ", "(", BackTick, "i", "d", BackTick, ")", ",", " ", "K", "E", "Y", " ", BackTick, "i", "d", "x", BackTick, " ", "(", BackTick, "c", BackTick, ")", ",", "\n">>,
      <<" ", " ", "C", "O", "N", "S", "T", "R", "A", "I", "N", "T", " ", BackTick, "f", "k", "2", BackTick, " ", "F", "O", "R", "E", "I", "G", "N", " ", "K", "E", "Y", " ", "(", BackTick, "c", BackTick, ")", " ", "R", "E", "F", "E", "R", "E", "N", "C", "E", "S", " ", BackTick, "t", "1", BackTick, " ", "(", BackTick, "i", "d", BackTick, ")", "\n">>,
      <<")", " ", "E", "N", "G", "I", "N", "E", "=", "I", "n", "n", "o", "D", "B", ";", "\n">>>>

\* a_b.c and a.b_c are auto-increment columns
BlockAB ==
    <<<<"C", "R", "E", "A", "T", "E", " ", "T", "A", "B", "L", "E", " ", BackTick, "a", "_", "b", BackTick, " ", "(", "\n">>,
      <<" ", " ", BackTick, "c", BackTick, " ", "b", "i", "g", "i", "n", "t", "(", "2", "0", ")", " ", "u", "n", "s", "i", "g", "n", "e", "d", " ", "N", "O", "T", " ", "N", "U", "L", "L", " ", "A", "U", "T", "O", "_", "I", "N", "C", "R", "E", "M", "E", "N", "T", ",", " ", BackTick, "v", BackTick, " ", "v", "a", "r", "c", "h", "a", "r", "(", "5", "0", ")", " ", "C", "H", "A", "R", "A", "C", "T", "E", "R", " ", "S", "E", "T", " ", "u", "t", "f", "8", " ", "C", "O", "L", "L", "A", "T", "E", " ", "u", "t", "f", "8", "_", "b", "i", "n", " ", "N", "O", "T", " ", "N", "U", "L", "L", " ", "D", "E", "F", "A", "U", "L", "T", " ", "'", "x", ",", "y", "'", " ", "C", "O", "M", "M", "E", "N", "T", " ", "'", "i", "t", "'", "'", "s", "'", ",", " ", "U", "N", "I", "Q", "U", "E", " ", "K", "E", "Y", " ", BackTick, "u", "k", BackTick, " ", "(", BackTick, "v", BackTick, ",", " ", BackTick, "c", BackTick, ")", "\n">>,
      <<")", ";", "\n">>>>

BlockA ==
    <<<<"c", "r", "e", "a", "t", "e", " ", "t", "a", "b", "l", "e", " ", "i", "f", " ", "n", "o", "t", " ", "e", "x", "i", "s", "t", "s", " ", "a", " ", "(", "\n">>,
      <<" ", " ", "b", "_", "c", " ", "I", "N", "T", " ", "U", "N", "S", "I", "G", "N", "E", "D", " ", "A", "U", "T", "O", "_", "I", "N", "C", "R", "E", "M", "E", "N", "T", ",", " ", "e", " ", "e", "n", "u", "m", "(", "'", "A", "'", ",", "'", "b", "'", ")", " ", "D", "E", "F", "A", "U", "L", "T", " ", "'", "A", "'", ",", " ", "d", " ", "d", "e", "c", "i", "m", "a", "l", "(", "1", "0", ",", " ", "2", ")", ",", " ", "g", " ", "g", "e", "o", "m", "e", "t", "r", "y", ",", " ", "F", "O", "R", "E", "I", "G", "N", " ", "K", "E", "Y", " ", "(", "e", ")", " ", "R", "E", "F", "E", "R", "E", "N", "C", "E", "S", " ", "t", "1", " ", "(", "i", "d", ")", "\n">>,
      <<")", ";", "\n">>>>

\* a table written on one line
BlockOneLine ==
    <<<<"C", "R", "E", "A", "T", "E", " ", "T", "A", "B", "L", "E", " ", "u", " ", "(", "i", "d", " ", "i", "n", "t", ")", ";", "\n">>>>

SchemaBlocks == {BlockPreamble, BlockT1, BlockT2, BlockAB, BlockA, BlockOneLine}

RECURSIVE BlockSeqs(_)
\* the sequences of at most n blocks, no block twice
BlockSeqs(n) ==
    IF n = 0 THEN { <<>> }
    ELSE BlockSeqs(n - 1)
           \cup { Append(q, b) : q \in {r \in BlockSeqs(n - 1) : Len(r) = n - 1},
                                 b \in SchemaBlocks }

\* the input files: the lines of the blocks, one block after the other
SchemaInputs ==
    { Join(q, <<>>) : q \in {r \in BlockSeqs(MaxTables) :
                                \A i, j \in DOMAIN r : i # j => r[i] # r[j]} }

\* the statements closed by the blocks, converted once
ConvertedTable ==
    [b \in SchemaBlocks |-> convert_create_table(FirstStatement(Join(b, <<>>)))]

\* sqlparse.parse(statement_str)[0] handed to convert_create_table
ConvertStatement(statement_str) ==
    IF \E b \in SchemaBlocks : Join(b, <<>>) = statement_str
    THEN ConvertedTable[CHOOSE b \in SchemaBlocks : Join(b, <<>>) = statement_str]
    ELSE convert_create_table(FirstStatement(statement_str))

SchemaInit ==
    /\ schema_input \in SchemaInputs
    /\ line_num = 0
    /\ buffer = <<>>
    /\ in_statement = FALSE
    /\ pg_output = <<>>
    /\ sequences = {}
    /\ indexes = {}
    /\ comments = {}
    /\ foreign_keys = <<>>
    /\ warnings = 0
    /\ schema_output = None
    /\ schema_pc = "read"

\* lines 385-400: the statement collected is converted and the state reset
CloseStatement(converted) ==
    /\ pg_output' = pg_output \o converted.pg_statements
    /\ sequences' = sequences \cup converted.sequences
    /\ indexes' = indexes \cup converted.indexes
    /\ comments' = comments \cup converted.comments
    /\ foreign_keys' = foreign_keys \o converted.foreign_keys
    /\ warnings' = warnings + converted.warnings
    /\ buffer' = <<>>
    /\ in_statement' = FALSE

\* lines 368-400 on one line of the input file
SchemaLineOf(line) ==
    IF ReMatch(line, <<Ws0, Lit(<<"S", "E", "T">>), Ws1>>).ok
    THEN UNCHANGED <<buffer, in_statement, pg_output, sequences, indexes,
                     comments, foreign_keys, warnings>>
    ELSE IF ~in_statement
    THEN /\ IF ReMatch(line, <<Ws0, Lit(<<"C", "R", "E", "A", "T", "E">>), Ws1, Lit(<<"T", "A", "B", "L", "E">>)>>).ok
            THEN in_statement' = TRUE /\ buffer' = <<line>>
            ELSE UNCHANGED <<in_statement, buffer>>
         /\ UNCHANGED <<pg_output, sequences, indexes, comments,
                        foreign_keys, warnings>>
    ELSE IF Strip(line) # <<>> /\ Strip(line)[Len(Strip(line))] = ";"
    THEN CloseStatement(ConvertStatement(Join(Append(buffer, line), <<>>)))
    ELSE /\ buffer' = Append(buffer, line)
         /\ UNCHANGED <<in_statement, pg_output, sequences, indexes,
                        comments, foreign_keys, warnings>>

\* one pass of the loop over the lines of the input file
SchemaLine ==
    /\ schema_pc = "read"
    /\ line_num < Len(schema_input)
    /\ line_num' = line_num + 1
    /\ SchemaLineOf(schema_input[line_num + 1])
    /\ UNCHANGED <<schema_input, schema_output, schema_pc>>

\* the schema file is written when the input file is exhausted
WriteSchema ==
    /\ schema_pc = "read"
    /\ line_num = Len(schema_input)
    /\ \E clock \in Clocks :
          schema_output' = SchemaText(clock, sequences, pg_output, indexes,
                                      foreign_keys, comments)
    /\ schema_pc' = "done"
    /\ UNCHANGED <<schema_input, line_num, buffer, in_statement, pg_output,
                   sequences, indexes, comments, foreign_keys, warnings>>

process_schema == SchemaLine \/ WriteSchema

-----------------------------------------------------------------------------
(* Specifications *)

vars == <<rw_line, rw_result,
          chunk_size_bytes, current_chunk_size, chunk_number, total_inserts,
          output_handle, files, input, decode_warnings, pc,
          sp_text, sp_items,
          schema_input, line_num, buffer, in_statement, pg_output, sequences,
          indexes, comments, foreign_keys, warnings, schema_output, schema_pc,
          ty_input, ty_result, tb_input, tb_result>>

chunk_vars == <<chunk_size_bytes, current_chunk_size, chunk_number, total_inserts,
                output_handle, files, input, decode_warnings, pc>>

schema_vars == <<schema_input, line_num, buffer, in_statement, pg_output, sequences,
                 indexes, comments, foreign_keys, warnings, schema_output, schema_pc>>

RewriterIdle == rw_line = <<>> /\ rw_result = <<>>

TypeIdle == ty_input = <<>> /\ ty_result = <<>>

TableIdle == tb_input = <<>> /\ tb_result = <<>>

SplitterIdle == sp_text = <<>> /\ sp_items = <<>>

ChunkIdle ==
    /\ chunk_size_bytes = 0
    /\ current_chunk_size = 0
    /\ chunk_number = 1
    /\ total_inserts = 0
    /\ output_handle = NoHandle
    /\ files = <<>>
    /\ input = <<>>
    /\ decode_warnings = 0
    /\ pc = "idle"

SchemaIdle ==
    /\ schema_input = <<>>
    /\ line_num = 0
    /\ buffer = <<>>
    /\ in_statement = FALSE
    /\ pg_output = <<>>
    /\ sequences = {}
    /\ indexes = {}
    /\ comments = {}
    /\ foreign_keys = <<>>
    /\ warnings = 0
    /\ schema_output = None
    /\ schema_pc = "idle"

\* the Chunk Writer: one run of process_file on a new InsertExtractorAndSplitter
Init == ChunkInit /\ RewriterIdle /\ SplitterIdle /\ SchemaIdle /\ TypeIdle /\ TableIdle

Next ==
    /\ process_file
    /\ UNCHANGED <<rw_line, rw_result, sp_text, sp_items>>
    /\ UNCHANGED schema_vars
    /\ UNCHANGED <<ty_input, ty_result, tb_input, tb_result>>

Spec == Init /\ [][Next]_vars

\* the Line Rewriter on one line
InitLine == RewriterInit /\ ChunkIdle /\ SplitterIdle /\ SchemaIdle /\ TypeIdle /\ TableIdle

NextLine ==
    /\ Rewrite
    /\ UNCHANGED chunk_vars
    /\ UNCHANGED <<sp_text, sp_items>>
    /\ UNCHANGED schema_vars
    /\ UNCHANGED <<ty_input, ty_result, tb_input, tb_result>>

SpecLine == InitLine /\ [][NextLine]_vars

\* the Clause Splitter on one text
InitSplit == SplitterInit /\ ChunkIdle /\ RewriterIdle /\ SchemaIdle /\ TypeIdle /\ TableIdle

NextSplit ==
    /\ Split
    /\ UNCHANGED chunk_vars
    /\ UNCHANGED <<rw_line, rw_result>>
    /\ UNCHANGED schema_vars
    /\ UNCHANGED <<ty_input, ty_result, tb_input, tb_result>>

SpecSplit == InitSplit /\ [][NextSplit]_vars

\* the Schema Assembler: one run of _process_schema on a new DDLConverter
InitSchema == SchemaInit /\ ChunkIdle /\ RewriterIdle /\ SplitterIdle /\ TypeIdle /\ TableIdle

NextSchema ==
    /\ process_schema
    /\ UNCHANGED chunk_vars
    /\ UNCHANGED <<rw_line, rw_result, sp_text, sp_items>>
    /\ UNCHANGED <<ty_input, ty_result, tb_input, tb_result>>

SpecSchema == InitSchema /\ [][NextSchema]_vars

\* the Type Mapper on one type
InitType == TypeInit /\ ChunkIdle /\ RewriterIdle /\ SplitterIdle /\ SchemaIdle /\ TableIdle

NextType ==
    /\ ConvertType
    /\ UNCHANGED chunk_vars
    /\ UNCHANGED <<rw_line, rw_result, sp_text, sp_items>>
    /\ UNCHANGED schema_vars
    /\ UNCHANGED <<tb_input, tb_result>>

SpecType == InitType /\ [][NextType]_vars

\* the Table Converter on one statement
InitTable == TableInit /\ ChunkIdle /\ RewriterIdle /\ SplitterIdle /\ SchemaIdle /\ TypeIdle

NextTable ==
    /\ ConvertTable
    /\ UNCHANGED chunk_vars
    /\ UNCHANGED <<rw_line, rw_result, sp_text, sp_items>>
    /\ UNCHANGED schema_vars
    /\ UNCHANGED <<ty_input, ty_result>>

SpecTable == InitTable /\ [][NextTable]_vars

\* the Chunk Writer on a file system whose writes and reads may fail
NextIO ==
    /\ process_file_failing
    /\ UNCHANGED <<rw_line, rw_result, sp_text, sp_items>>
    /\ UNCHANGED schema_vars
    /\ UNCHANGED <<ty_input, ty_result, tb_input, tb_result>>

SpecIO == Init /\ [][NextIO]_vars

-----------------------------------------------------------------------------
(* Properties of the Chunk Writer *)

\* the data statements of a file, in the order written
StatementsOf(content) == SelectSeq(content, LAMBDA r : r.kind = "stmt")

\* the bytes the data statements of a file take, terminators included
StatementBytes(content) ==
    LET st == StatementsOf(content)
        longest == Max({Utf8Len(st[i].text) : i \in DOMAIN st} \cup {0})
    IN  Cardinality({ <<i, j>> \in (DOMAIN st) \X (1..longest) : j <= Utf8Len(st[i].text) })

\* the file numbered n of the directory fs
FileIn(fs, n) == fs[CHOOSE k \in DOMAIN fs : fs[k].number = n]

ChunkFile(n) == FileIn(files, n)

RECURSIVE ChunkStream(_)
\* the statements of chunk files 1..n read in chunk order, terminators removed
ChunkStream(n) ==
    IF n = 0 THEN <<>>
    ELSE ChunkStream(n - 1)
           \o [i \in DOMAIN StatementsOf(ChunkFile(n).content) |->
                 LET t == StatementsOf(ChunkFile(n).content)[i].text
                 IN  SubSeq(t, 1, Len(t) - 1)]

\* the converted INSERT lines of the input, in input order
ConvertedStream ==
    SelectSeq([i \in DOMAIN input |-> ConvertedLine[input[i]]], LAMBDA c : c # None)

NumberedOnce == \A n \in 1..Len(files) : Cardinality({k \in DOMAIN files : files[k].number = n}) = 1

\* C1: when process_file has finished, the statements of chunk files 1..N, read
\* in chunk order without headers and footers, are exactly the converted INSERT
\* lines of the input in input order: each one whole, once, in one chunk.
C1_StreamPreserved ==
    pc = "done" =>
        /\ NumberedOnce
        /\ ChunkStream(Len(files)) = ConvertedStream
        /\ \A k \in DOMAIN files : \A i \in DOMAIN files[k].content :
              files[k].content[i].kind = "stmt" =>
                  LET t == files[k].content[i].text
                  IN  t[Len(t)] = "\n" /\ "\n" \notin Range(SubSeq(t, 1, Len(t) - 1))

C1_Witness ==
    /\ pc = "done"
    /\ Len(files) >= 2
    /\ Len(ConvertedStream) >= 3
    /\ \E i \in DOMAIN input : input[i] = LineComment

\* the step reads the line l
Reads(l) == pc = "loop" /\ input' = Append(input, l)

CurrentFile == ChunkFile(chunk_number)

\* the step finalizes the current chunk, opens the next one and writes c to it
RollsOverWith(c) ==
    /\ Len(files') = Len(files) + 1
    /\ chunk_number' = chunk_number + 1
    /\ \A k \in DOMAIN files : files'[k].number = files[k].number
    /\ \A k \in DOMAIN files : files[k].number # chunk_number => files'[k] = files[k]
    /\ FileIn(files', chunk_number).content = CurrentFile.content \o write_footer
    /\ files'[Len(files')].number = chunk_number + 1
    /\ files'[Len(files')].content =
           write_header(chunk_number + 1) \o << [kind |-> "stmt", text |-> c \o <<"\n">>] >>

\* the step writes c at the end of the current chunk
AppendsToCurrent(c) ==
    /\ Len(files') = Len(files)
    /\ chunk_number' = chunk_number
    /\ \A k \in DOMAIN files : files[k].number # chunk_number => files'[k] = files[k]
    /\ FileIn(files', chunk_number).content =
           CurrentFile.content \o << [kind |-> "stmt", text |-> c \o <<"\n">>] >>

\* C2: when a converted line arrives, the current chunk is finalized and the
\* next one opened before the line is written if and only if the bytes of the
\* current chunk plus the bytes of the line plus 1 exceed the byte budget and
\* the current chunk holds at least one statement; otherwise the line goes to
\* the current chunk.  With budget 100 and two lines of 60 bytes, the second
\* line is the first statement of chunk 2.
C2_RolloverIff ==
    /\ [][ \A l \in DataLines :
             (Reads(l) /\ ConvertedLine[l] # None) =>
                LET c == ConvertedLine[l]
                    exceeds == StatementBytes(CurrentFile.content) + Utf8Len(c) + 1
                                  > chunk_size_bytes
                    holds == Len(StatementsOf(CurrentFile.content)) >= 1
                IN  IF exceeds /\ holds THEN RollsOverWith(c) ELSE AppendsToCurrent(c) ]_vars
    /\ [](  (chunk_size_bytes = 100 /\ input = <<Line60, Line60>>) =>
               /\ Utf8Len(ConvertedLine[Line60]) = 60
               /\ Len(files) = 2
               /\ StatementsOf(files[2].content)
                    = << [kind |-> "stmt", text |-> ConvertedLine[Line60] \o <<"\n">>] >> )

C2_Witness ==
    /\ chunk_size_bytes = 100
    /\ input = <<Line60, Line60>>
    /\ Len(files) = 2
    /\ Len(StatementsOf(files[1].content)) = 1

\* C3: a converted statement whose bytes, terminator included, exceed the byte
\* budget is written whole into a chunk that holds no other statement.
C3_OversizedAlone ==
    \A k \in DOMAIN files : \A i \in DOMAIN files[k].content :
        LET r == files[k].content[i]
        IN  (r.kind = "stmt" /\ Utf8Len(r.text) > chunk_size_bytes) =>
               /\ StatementsOf(files[k].content) = <<r>>
               /\ \E j \in DOMAIN input : r.text = ConvertedLine[input[j]] \o <<"\n">>

\* the oversized statement in the middle of the input, between two others
C3_Witness ==
    /\ pc = "done"
    /\ input = <<LineShort, LineHuge, LineShort>>
    /\ Len(files) = 3
    /\ Len(StatementsOf(files[2].content)) = 1

IsPragma(r, t) == r.kind = "pragma" /\ r.text = t

Positions(content, t) == {i \in DOMAIN content : IsPragma(content[i], t)}

StatementPositions(content) == {i \in DOMAIN content : content[i].kind = "stmt"}

\* the header pragmas, each once and before every statement of the file
HeaderOnceFirst(content) ==
    \A t \in {"\\set ON_ERROR_STOP off", "SET session_replication_role = 'replica';"} :
        /\ Cardinality(Positions(content, t)) = 1
        /\ \A i \in Positions(content, t) : \A j \in StatementPositions(content) : i < j

\* the footer pragma, once and after every statement and every header pragma
FooterOnceLast(content) ==
    LET F == Positions(content, "SET session_replication_role = 'origin';")
    IN  /\ Cardinality(F) = 1
        /\ \A i \in F : i = Len(content)

FooterAbsent(content) == Positions(content, "SET session_replication_role = 'origin';") = {}

\* C4: chunk files are numbered 1, 2, ..., N without gap or repeat; every file
\* has its header once before its first statement; every finalized file (all
\* of them once process_file has finished) has its footer once, after its last
\* statement, and the file still being filled has none yet.
C4_NumberedAndBracketed ==
    pc # "start" =>
        /\ \A k \in DOMAIN files : files[k].number = k
        /\ chunk_number = Len(files)
        /\ \A k \in DOMAIN files : HeaderOnceFirst(files[k].content)
        /\ \A k \in DOMAIN files :
              IF k < Len(files) \/ pc = "done"
              THEN FooterOnceLast(files[k].content)
              ELSE FooterAbsent(files[k].content)

C4_Witness ==
    /\ pc = "done"
    /\ Len(files) = 3
    /\ \A k \in DOMAIN files : Len(StatementsOf(files[k].content)) >= 1

-----------------------------------------------------------------------------
(* Properties of the Line Rewriter *)

\* the line without its line-ending characters
TrimEol(l) ==
    IF \A k \in DOMAIN l : l[k] \in {"\r", "\n"} THEN <<>>
    ELSE SubSeq(l, 1, CHOOSE k \in DOMAIN l :
                         /\ l[k] \notin {"\r", "\n"}
                         /\ \A m \in (k + 1)..Len(l) : l[m] \in {"\r", "\n"})

\* the line begins with INSERT INTO, in any letter case
BeginsInsertInto(l) ==
    StartsAtIgnoreCase(l, <<"I", "N", "S", "E", "R", "T", " ", "I", "N", "T", "O">>, 1)

RECURSIVE Concat(_)
Concat(pieces) == IF pieces = <<>> THEN <<>> ELSE Head(pieces) \o Concat(Tail(pieces))

\* the positions of the backticks of s, in increasing order
BackTicks(s) ==
    LET B == {i \in DOMAIN s : s[i] = BackTick}
    IN  [k \in 1..Cardinality(B) |->
            CHOOSE i \in B : Cardinality({j \in B : j <= i}) = k]

RECURSIVE Delimiters(_, _)
\* the backticks that delimit an identifier, from the k-th backtick on: a
\* backtick and the next one delimit an identifier when something is between them
Delimiters(b, k) ==
    IF k + 1 > Len(b) THEN {}
    ELSE IF b[k + 1] > b[k] + 1
         THEN {b[k], b[k + 1]} \cup Delimiters(b, k + 2)
         ELSE Delimiters(b, k + 1)

\* rule 1: backtick-delimited identifiers are delimited by double quotes
Rule1(s) ==
    LET D == Delimiters(BackTicks(s), 1)
    IN  [i \in DOMAIN s |-> IF i \in D THEN "\"" ELSE s[i]]

\* the bit literals b?0? and b?1? of s, ? being the quote q, become '0' and '1'
Rule2Quote(s, q) ==
    LET B == {i \in DOMAIN s :
                /\ i + 3 <= Len(s)
                /\ <<s[i], s[i + 1], s[i + 3]>> = <<"b", q, q>>
                /\ s[i + 2] \in {"0", "1"}
                /\ (i > 1 => ~IsWord(s[i - 1]))}
    IN  Concat([i \in DOMAIN s |->
                  IF i \in B THEN <<>>
                  ELSE IF (i - 1) \in B \/ (i - 3) \in B THEN <<"'">>
                  ELSE <<s[i]>>])

\* rule 2: the bit literals b'0', b'1', b"0", b"1" become '0' and '1'
Rule2(s) == Rule2Quote(Rule2Quote(s, "'"), "\"")

\* rule 3: a backslash followed by an apostrophe becomes two apostrophes
Rule3(s) ==
    LET E == {i \in DOMAIN s : i < Len(s) /\ s[i] = "\\" /\ s[i + 1] = "'"}
    IN  [i \in DOMAIN s |-> IF i \in E THEN "'" ELSE s[i]]

\* rule 4: \N that no backslash precedes becomes NULL
Rule4(s) ==
    LET M == {i \in DOMAIN s : /\ i < Len(s) /\ s[i] = "\\" /\ s[i + 1] = "N"
                               /\ (i > 1 => s[i - 1] # "\\")}
    IN  Concat([i \in DOMAIN s |->
                  IF i \in M THEN <<"N", "U", "L", "L">>
                  ELSE IF (i - 1) \in M THEN <<>> ELSE <<s[i]>>])

\* rule 5: \0 is removed
Rule5(s) ==
    LET Z == {i \in DOMAIN s : i < Len(s) /\ s[i] = "\\" /\ s[i + 1] = "0"}
    IN  Concat([i \in DOMAIN s |->
                  IF i \in Z \/ (i - 1) \in Z THEN <<>> ELSE <<s[i]>>])

\* rule 6: two backslashes become one: of a run of backslashes the first, the
\* third, ... stay, and the second, the fourth, ... go
Rule6(s) ==
    LET RunStart(i) == 1 + Max({k \in 1..(i - 1) : s[k] # "\\"} \cup {0})
        Goes(i) == s[i] = "\\" /\ (i - RunStart(i)) % 2 = 1
    IN  Concat([i \in DOMAIN s |-> IF Goes(i) THEN <<>> ELSE <<s[i]>>])

\* rule 7: the line ends with a terminator, trailing blanks aside
Rule7(s) ==
    IF \E k \in DOMAIN s : s[k] = ";" /\ \A m \in (k + 1)..Len(s) : IsSpace(s[m])
    THEN s
    ELSE s \o <<";">>

Rules1To7(l) == Rule7(Rule6(Rule5(Rule4(Rule3(Rule2(Rule1(l)))))))

\* C9: for every line that begins with INSERT INTO, convert_insert_line returns
\* the line, line ending trimmed, with rules 1 to 7 applied in that order, each
\* to the result of the one before; the documented line converts as documented.
C9_RulesInOrder ==
    /\ (rw_result # Pending /\ BeginsInsertInto(TrimEol(rw_line)))
          => rw_result = Rules1To7(TrimEol(rw_line))
    /\ (rw_result # Pending /\ rw_line = ScenarioLine) => rw_result = ScenarioConverted

C9_Witness ==
    /\ rw_line = ScenarioLine
    /\ rw_result = ScenarioConverted

\* the line begins, blanks before it aside, with INSERT, one or more blanks and
\* INTO, in any letter case
LeadsInsertInto(l) ==
    \E i \in DOMAIN l : \E j \in DOMAIN l :
        /\ \A k \in 1..(i - 1) : IsSpace(l[k])
        /\ StartsAtIgnoreCase(l, <<"I", "N", "S", "E", "R", "T">>, i)
        /\ j >= i + 7
        /\ \A k \in (i + 6)..(j - 1) : IsSpace(l[k])
        /\ StartsAtIgnoreCase(l, <<"I", "N", "T", "O">>, j)

WriterState == <<files, output_handle, chunk_number, current_chunk_size, total_inserts>>

\* C10 as stated: a line that, line ending trimmed, does not begin with INSERT
\* INTO (in any letter case) is dropped: nothing is written, and the chunk
\* index, the chunk byte size and the statement count stay as they are.
C10_AsStated ==
    [][ \A l \in DataLines :
          (Reads(l) /\ ~BeginsInsertInto(TrimEol(l))) => UNCHANGED WriterState ]_vars

\* C10: a line that, line ending trimmed, does not begin - leading blanks
\* aside - with INSERT, one or more blanks and INTO (in any letter case) is
\* dropped: nothing is written, and the chunk index, the chunk byte size and
\* the statement count stay as they are.
C10_DroppedLineFrame ==
    [][ \A l \in DataLines :
          (Reads(l) /\ ~LeadsInsertInto(TrimEol(l))) => UNCHANGED WriterState ]_vars

\* a comment line has been read after a statement was written
C10_Witness ==
    /\ pc = "loop"
    /\ input = <<LineShort, LineComment>>
    /\ total_inserts = 1
    /\ Len(files) = 1
    /\ Len(StatementsOf(files[1].content)) = 1

-----------------------------------------------------------------------------
(* Properties of the Clause Splitter *)

\* After the first i characters of t: the quote style of the open literal
\* ("none" outside literals), the parenthesis depth counted outside literals,
\* and whether character i is the first of a doubled quote inside a literal.
Lexed(t) ==
    LET L[i \in 0..Len(t)] ==
            IF i = 0 THEN [open |-> "none", depth |-> 0, doubled |-> FALSE]
            ELSE LET before == L[i - 1]
                     c == t[i]
                 IN  IF before.doubled THEN [before EXCEPT !.doubled = FALSE]
                     ELSE IF before.open = "none"
                          THEN [open |-> IF c \in {"'", "\""} THEN c ELSE "none",
                                depth |-> before.depth + (IF c = "(" THEN 1 ELSE 0)
                                                       - (IF c = ")" THEN 1 ELSE 0),
                                doubled |-> FALSE]
                          ELSE IF c # before.open THEN before
                               ELSE IF i < Len(t) /\ t[i + 1] = c
                                    THEN [before EXCEPT !.doubled = TRUE]
                                    ELSE [before EXCEPT !.open = "none"]
    IN  L

\* the commas of t at parenthesis depth zero outside every quoted literal
Boundaries(t) ==
    {i \in DOMAIN t :
        /\ t[i] = ","
        /\ Lexed(t)[i - 1].open = "none"
        /\ Lexed(t)[i - 1].depth = 0}

RECURSIVE CutAfter(_, _)
\* the position of the comma that ends item k, the items being cut one after
\* the other from the start of the text
CutAfter(items, k) == IF k = 0 THEN 0 ELSE CutAfter(items, k - 1) + Len(items[k]) + 1

\* the commas at which the text was cut, read off the items
CutPositions(t, items) ==
    {p \in DOMAIN t : \E k \in DOMAIN items : p = CutAfter(items, k)}

\* the items are the pieces of the text between the cuts
PiecesOf(t, items) ==
    /\ \A k \in DOMAIN items :
          /\ CutAfter(items, k) <= Len(t) + 1
          /\ items[k] = SubSeq(t, CutAfter(items, k - 1) + 1, CutAfter(items, k) - 1)
    /\ CutAfter(items, Len(items)) \in {Len(t), Len(t) + 1}
    /\ \A p \in CutPositions(t, items) : t[p] = ","

\* C8: _split_by_comma cuts the text at a comma if and only if, at that comma,
\* the parenthesis depth counted outside quoted literals is zero and no quoted
\* literal is open, a doubled quote inside a literal of its style not closing it.
C8_CutsAtTopLevelCommas ==
    sp_items # Pending =>
        /\ PiecesOf(sp_text, sp_items)
        /\ CutPositions(sp_text, sp_items) = Boundaries(sp_text)

\* a comma inside a quoted literal, where the text is not cut, and one after
\* the literal, where it is
C8_Witness ==
    /\ sp_text = <<"'", ",", "'", ",", "a">>
    /\ sp_items = << <<"'", ",", "'">>, <<"a">> >>

-----------------------------------------------------------------------------
(* Properties of the Schema Assembler *)

\* the indices of text at which pat occurs
Occurrences(text, pat) == {p \in DOMAIN text : StartsAt(text, pat, p)}

\* the indices of text at which a line begins with pat
LinesStarting(text, pat) ==
    {p \in Occurrences(text, pat) : p = 1 \/ text[p - 1] = "\n"}

\* the index of the last character of the line that holds index p
LineEnd(text, p) ==
    Min({k \in p..Len(text) : text[k] = "\n"} \cup {Len(text) + 1}) - 1

\* the CREATE TABLE statements of the schema file: where each begins
CreateTables == LinesStarting(schema_output, <<"C", "R", "E", "A", "T", "E", " ", "T", "A", "B", "L", "E", " ">>)

\* the index of the last character of the CREATE TABLE statement begun at c: the
\* semicolon of the first line ");" after c
CreateTableEnd(c) ==
    Min({k \in c..Len(schema_output) : StartsAt(schema_output, <<"\n", ")", ";">>, k)}
          \cup {Len(schema_output) - 2}) + 2

\* the ALTER TABLE ... ADD CONSTRAINT ... FOREIGN KEY statements of the schema
\* file: where each begins
ForeignKeyStatements ==
    {a \in LinesStarting(schema_output, <<"A", "L", "T", "E", "R", " ", "T", "A", "B", "L", "E", " ">>) :
        \E k \in a..LineEnd(schema_output, a) :
            /\ StartsAt(schema_output, <<" ", "A", "D", "D", " ", "C", "O", "N", "S", "T", "R", "A", "I", "N", "T", " ">>, k)
            /\ \E f \in k..LineEnd(schema_output, a) :
                  StartsAt(schema_output, <<" ", "F", "O", "R", "E", "I", "G", "N", " ", "K", "E", "Y", " ">>, f)}

\* C5: in the schema file every ALTER TABLE ... ADD CONSTRAINT ... FOREIGN KEY
\* statement comes strictly after every CREATE TABLE statement, and no
\* CREATE TABLE statement holds a foreign-key clause (FOREIGN KEY or
\* REFERENCES), whatever the order of the tables in the input.
C5_ForeignKeysAfterTables ==
    schema_pc = "done" =>
        /\ \A c \in CreateTables : \A a \in ForeignKeyStatements : CreateTableEnd(c) < a
        /\ \A c \in CreateTables : \A k \in c..CreateTableEnd(c) :
              /\ ~StartsAtIgnoreCase(schema_output, <<"F", "O", "R", "E", "I", "G", "N", " ", "K", "E", "Y">>, k)
              /\ ~StartsAtIgnoreCase(schema_output, <<"R", "E", "F", "E", "R", "E", "N", "C", "E", "S">>, k)

\* two tables that refer to each other, the referring one of the first
\* constraint declared last: both tables and both constraints are written
C5_Witness ==
    /\ schema_pc = "done"
    /\ schema_input = BlockT2 \o BlockT1
    /\ Cardinality(CreateTables) = 2
    /\ Cardinality(ForeignKeyStatements) = 2
    /\ \E a \in ForeignKeyStatements :
          StartsAt(schema_output, <<"A", "L", "T", "E", "R", " ", "T", "A", "B", "L", "E", " ", "\"", "t", "2", "\"", " ", "A", "D", "D", " ", "C", "O", "N", "S", "T", "R", "A", "I", "N", "T", " ", "\"", "f", "k", "2", "\"", " ", "F", "O", "R", "E", "I", "G", "N", " ", "K", "E", "Y", " ", "(", "\"", "c", "\"", ")", " ", "R", "E", "F", "E", "R", "E", "N", "C", "E", "S", " ", "\"", "t", "1", "\"", " ", "(", "\"", "i", "d", "\"", ")", ";">>, a)

\* the sequence declarations of the schema file: where each begins
SequenceDeclarations == LinesStarting(schema_output, <<"C", "R", "E", "A", "T", "E", " ", "S", "E", "Q", "U", "E", "N", "C", "E", " ">>)

\* the auto-increment columns converted: where the default of each refers to
\* its sequence
SequenceReferences == Occurrences(schema_output, <<"n", "e", "x", "t", "v", "a", "l", "(", "'">>)

\* the name of the sequence referred to at r
ReferencedSequence(r) ==
    SubSeq(schema_output, r + 9, IndexOf(schema_output, "'", r + 9) - 1)

\* C6: the schema file declares as many sequences as auto-increment columns
\* were converted, and no two auto-increment columns refer to the same
\* sequence.
C6_SequencePerColumn ==
    schema_pc = "done" =>
        /\ Cardinality(SequenceDeclarations) = Cardinality(SequenceReferences)
        /\ \A r, q \in SequenceReferences :
              r # q => ReferencedSequence(r) # ReferencedSequence(q)

\* the index statements of the schema file: where each begins
IndexStatements ==
    LinesStarting(schema_output, <<"C", "R", "E", "A", "T", "E", " ", "I", "N", "D", "E", "X", " ">>)
      \cup LinesStarting(schema_output, <<"C", "R", "E", "A", "T", "E", " ", "U", "N", "I", "Q", "U", "E", " ", "I", "N", "D", "E", "X", " ">>)

\* the name of the index created at p: what stands between the first two
\* double quotes of the statement
IndexName(p) ==
    LET open == IndexOf(schema_output, "\"", p)
    IN  SubSeq(schema_output, open + 1, IndexOf(schema_output, "\"", open + 1) - 1)

\* C7: in the schema file no two CREATE INDEX / CREATE UNIQUE INDEX
\* statements carry the same index name.
C7_IndexNameOnce ==
    schema_pc = "done" =>
        \A p, q \in IndexStatements : p # q => IndexName(p) # IndexName(q)

-----------------------------------------------------------------------------
(* Properties of the Type Mapper *)

\* the type as the pattern table sees it: in lower case, no blanks around
Normalized(x) == Strip(Lower(x))

\* one or more digits
AllDigits(x) == x # <<>> /\ \A i \in DOMAIN x : x[i] \in Digits

\* what stands between the parentheses of name(...), when s has that form
Inside(name, s) == SubSeq(s, Len(name) + 2, Len(s) - 1)

\* s is name(...): the name, an opening parenthesis, something, a closing one
Parenthesised(name, s) ==
    /\ Len(s) >= Len(name) + 3
    /\ SubSeq(s, 1, Len(name) + 1) = name \o <<"(">>
    /\ s[Len(s)] = ")"

\* the numbers a pattern captures in s: none, (n) or (p,s)
Captured(e, s) ==
    IF e.shape = "c1" THEN <<Inside(e.name, s)>>
    ELSE IF e.shape = "c2"
    THEN LET c == CHOOSE c \in DOMAIN s : s[c] = ","
         IN  <<SubSeq(s, Len(e.name) + 2, c - 1), SubSeq(s, c + 1, Len(s) - 1)>>
    ELSE <<>>

\* the pattern e of the table matches the whole of s
FullyMatches(e, s) ==
    CASE e.shape = "bare" -> s = e.name
      [] e.shape = "one" -> s = e.name \o <<"(", "1", ")">>
      [] e.shape \in {"n1", "c1"} ->
            Parenthesised(e.name, s) /\ AllDigits(Inside(e.name, s))
      [] e.shape = "c2" ->
            /\ Parenthesised(e.name, s)
            /\ Cardinality({c \in DOMAIN s : s[c] = ","}) = 1
            /\ AllDigits(Captured(e, s)[1])
            /\ AllDigits(Captured(e, s)[2])
      [] e.shape = "any" ->
            Parenthesised(e.name, s) /\ "\n" \notin Range(Inside(e.name, s))

\* the replacement of the pattern e, the numbers captured in s carried forward
Replacement(e, s) ==
    IF e.carry = 0 THEN e.repl
    ELSE e.repl \o <<"(">> \o Join(Captured(e, s), <<",">>) \o <<")">>

\* the types that have a special case of their own in convert_data_type
SpecialCase(s) ==
    \/ ReMatch(s, DecimalPattern).ok
    \/ ReMatch(s, FloatPattern).ok
    \/ s = <<"j", "s", "o", "n">>
    \/ EnumClose(s) # 0
    \/ StartsAt(s, <<"s", "e", "t", "(">>, 1)

\* C11: for every normalized type that no special case handles,
\* convert_data_type returns the replacement of the first pattern of the table,
\* in declared order, that fully matches it, with the captured numbers carried
\* forward; so int(11) maps to integer, bit(1) to boolean and bit(8) to bit(8).
C11_FirstFullMatchWins ==
    ty_result # TypePending =>
        LET s == Normalized(ty_input)
            M == {k \in DOMAIN TYPE_MAPPING : FullyMatches(TYPE_MAPPING[k], s)}
        IN  /\ (~SpecialCase(s) /\ M # {}) =>
                  /\ ty_result.pg_type = Replacement(TYPE_MAPPING[Min(M)], s)
                  /\ ~ty_result.warned
            /\ s = <<"i", "n", "t", "(", "1", "1", ")">> => ty_result.pg_type = <<"i", "n", "t", "e", "g", "e", "r">>
            /\ s = <<"b", "i", "t", "(", "1", ")">> => ty_result.pg_type = <<"b", "o", "o", "l", "e", "a", "n">>
            /\ s = <<"b", "i", "t", "(", "8", ")">> => ty_result.pg_type = <<"b", "i", "t", "(", "8", ")">>
            /\ s = <<"d", "a", "t", "e", "t", "i", "m", "e", "(", "8", ")">> => ty_result.pg_type = <<"t", "i", "m", "e", "s", "t", "a", "m", "p", "(", "8", ")">>

\* bit(1), which two patterns of the table fully match, has been converted
C11_Witness ==
    /\ ty_input = <<"B", "I", "T", "(", "1", ")">>
    /\ ty_result # TypePending
    /\ ty_result.pg_type = <<"b", "o", "o", "l", "e", "a", "n">>
    /\ Cardinality({k \in DOMAIN TYPE_MAPPING :
                       FullyMatches(TYPE_MAPPING[k], Normalized(ty_input))}) = 2
-----------------------------------------------------------------------------
(* Properties of the Table Converter and the Column Parser *)

\* the pieces of s between the occurrences of sep (which do not overlap)
SplitBy(s, sep) ==
    LET O == Occurrences(s, sep)
        Nth(n) == IF n = 0 THEN 1 - Len(sep)
                  ELSE IF n > Cardinality(O) THEN Len(s) + 1
                  ELSE CHOOSE p \in O : Cardinality({q \in O : q <= p}) = n
    IN  [n \in 1..(Cardinality(O) + 1) |-> SubSeq(s, Nth(n - 1) + Len(sep), Nth(n) - 1)]

\* the table t was emitted: one CREATE TABLE "t" statement
TableEmitted ==
    /\ tb_result # TablePending
    /\ Len(tb_result.pg_statements) = 1
    /\ StartsAt(tb_result.pg_statements[1], <<"C", "R", "E", "A", "T", "E", " ", "T", "A", "B", "L", "E", " ", "\"", "t", "\"", " ", "(", "\n", " ", " ", " ", " ">>, 1)
    /\ StartsAt(tb_result.pg_statements[1], <<"\n", ")", ";">>, Len(tb_result.pg_statements[1]) - 2)

\* the fragments of the emitted table, in the order written
Fragments ==
    LET st == tb_result.pg_statements[1]
    IN  SplitBy(SubSeq(st, 24, Len(st) - 3), <<",", "\n", " ", " ", " ", " ">>)

\* the table holds the fragments of its first and last column and of its
\* primary key, in that order, and between the columns what the clause became
OthersEmitted(between) ==
    /\ TableEmitted
    /\ Fragments = <<<<"\"", "a", "\"", " ", "i", "n", "t", "e", "g", "e", "r", " ", "N", "O", "T", " ", "N", "U", "L", "L">>>> \o between
                     \o <<<<"\"", "z", "\"", " ", "t", "e", "x", "t">>, <<"P", "R", "I", "M", "A", "R", "Y", " ", "K", "E", "Y", " ", "(", "\"", "a", "\"", ")">>>>

\* the fragment of the column c, when the table holds one
FragmentOfC == Fragments[2]

HasFragmentOfC ==
    /\ TableEmitted
    /\ Len(Fragments) = 4
    /\ OthersEmitted(<<FragmentOfC>>)
    /\ StartsAt(FragmentOfC, <<"\"", "c", "\"", " ">>, 1)

\* the clause is a column clause
IsColumn == tb_input.name # <<>>

\* the type of the column matches no special case and no pattern of the table
UnknownType(s) ==
    /\ ~SpecialCase(s)
    /\ \A k \in DOMAIN TYPE_MAPPING : ~FullyMatches(TYPE_MAPPING[k], s)

\* C12: a column whose type matches no special case and no pattern of the
\* table does not make the conversion fail: the type is returned as it is, a
\* warning is printed, and the column is emitted in its table with that type.
C12_UnknownTypeKept ==
    (tb_result # TablePending /\ IsColumn /\ UnknownType(Normalized(tb_input.type))) =>
        /\ tb_result.warnings = 1
        /\ HasFragmentOfC
        /\ StartsAt(FragmentOfC, <<"\"", "c", "\"", " ">> \o Normalized(tb_input.type), 1)
        /\ \/ Len(FragmentOfC) = 4 + Len(tb_input.type)
           \/ FragmentOfC[5 + Len(tb_input.type)] = " "

C12_Witness ==
    /\ tb_result # TablePending
    /\ IsColumn
    /\ tb_input.type = <<"g", "e", "o", "m", "e", "t", "r", "y">>
    /\ tb_input.null = <<" ", "N", "O", "T", " ", "N", "U", "L", "L">>
    /\ tb_result.warnings = 1
    /\ Fragments = <<<<"\"", "a", "\"", " ", "i", "n", "t", "e", "g", "e", "r", " ", "N", "O", "T", " ", "N", "U", "L", "L">>, <<"\"", "c", "\"", " ", "g", "e", "o", "m", "e", "t", "r", "y", " ", "N", "O", "T", " ", "N", "U", "L", "L">>,
                     <<"\"", "z", "\"", " ", "t", "e", "x", "t">>, <<"P", "R", "I", "M", "A", "R", "Y", " ", "K", "E", "Y", " ", "(", "\"", "a", "\"", ")">>>>

\* the clause begins like a primary key, a unique key, a key or a named
\* constraint
IsKeyClause(text) ==
    \/ ReMatch(text, <<Lit(<<"P", "R", "I", "M", "A", "R", "Y">>), Ws1, Lit(<<"K", "E", "Y">>)>>).ok
    \/ ReMatch(text, <<Lit(<<"U", "N", "I", "Q", "U", "E">>), Ws1, Lit(<<"K", "E", "Y">>)>>).ok
    \/ ReMatch(text, <<Lit(<<"K", "E", "Y">>), Ws1>>).ok
    \/ ReMatch(text, <<Lit(<<"C", "O", "N", "S", "T", "R", "A", "I", "N", "T">>)>>).ok

\* the text of the clause between the first column and the last
ClauseOfInput == IF IsColumn THEN ClauseText(tb_input) ELSE tb_input.type

\* C13: a clause that is no primary key, unique key, key or named foreign
\* key and cannot be parsed as a column is dropped with a warning, and the
\* CREATE TABLE statement of the table is emitted with all its other clauses.
C13_DroppedWithWarning ==
    ( /\ tb_result # TablePending
      /\ ~IsKeyClause(ClauseOfInput)
      /\ convert_column_definition(ClauseOfInput, <<"\"", "t", "\"">>).col_def = None ) =>
        /\ OthersEmitted(<<>>)
        /\ tb_result.warnings >= 1

\* C16: a column clause with the auto-increment keyword, whatever default and
\* nullability it declares, gives a fragment whose one default is the
\* reference to the sequence of the column, and that holds NOT NULL once.
C16_AutoIncrementDefault ==
    (tb_result # TablePending /\ IsColumn /\ tb_input.auto # <<>>) =>
        /\ HasFragmentOfC
        /\ Cardinality(Occurrences(FragmentOfC, <<"D", "E", "F", "A", "U", "L", "T", " ">>)) = 1
        /\ Cardinality(Occurrences(FragmentOfC, <<" ", "D", "E", "F", "A", "U", "L", "T", " ", "n", "e", "x", "t", "v", "a", "l", "(", "'", "t", "_", "c", "_", "s", "e", "q", "'", ")">>)) = 1
        /\ Cardinality(Occurrences(FragmentOfC, <<"N", "O", "T", " ", "N", "U", "L", "L">>)) = 1
        /\ <<"C", "R", "E", "A", "T", "E", " ", "S", "E", "Q", "U", "E", "N", "C", "E", " ", "t", "_", "c", "_", "s", "e", "q", ";">> \in tb_result.sequences

\* a clause that declares NOT NULL and a default of its own, before the keyword
C16_Witness ==
    /\ tb_result # TablePending
    /\ IsColumn
    /\ ClauseOfInput = <<BackTick, "c", BackTick, " ", "b", "i", "g", "i", "n", "t", "(", "2", "0", ")", " ", "N", "O", "T", " ", "N", "U", "L", "L", " ", "D", "E", "F", "A", "U", "L", "T", " ", "0", " ", "A", "U", "T", "O", "_", "I", "N", "C", "R", "E", "M", "E", "N", "T">>
    /\ FragmentOfC = <<"\"", "c", "\"", " ", "b", "i", "g", "i", "n", "t", " ", "D", "E", "F", "A", "U", "L", "T", " ", "n", "e", "x", "t", "v", "a", "l", "(", "'", "t", "_", "c", "_", "s", "e", "q", "'", ")", " ", "N", "O", "T", " ", "N", "U", "L", "L">>

\* ('v1', 'v2', ...): the values in single quotes, a quote inside a value
\* doubled
QuotedValues(vs) ==
    <<"'">> \o Join([n \in DOMAIN vs |-> StrReplace(vs[n], <<"'">>, <<"'", "'">>)], <<"'", ",", " ", "'">>)
      \o <<"'">>

\* C17: a column of an enumerated type gives a fragment with a bounded string
\* type and a CHECK (<col> IN (...)) clause whose values are the declared
\* values, in declared order and as declared (same letters, same case), each
\* quote inside a value doubled.
C17_EnumCheckAsDeclared ==
    (tb_result # TablePending /\ IsColumn /\ tb_input.values # <<>>) =>
        /\ HasFragmentOfC
        /\ StartsAt(FragmentOfC, <<"\"", "c", "\"", " ", "v", "a", "r", "c", "h", "a", "r", "(", "2", "5", "5", ")">>, 1)
        /\ \E p \in DOMAIN FragmentOfC :
              /\ Occurrences(FragmentOfC, <<" ", "C", "H", "E", "C", "K", " ", "(">>) = {p}
              /\ SubSeq(FragmentOfC, p, Len(FragmentOfC))
                   = <<" ", "C", "H", "E", "C", "K", " ", "(", "\"", "c", "\"", " ", "I", "N", " ", "(">> \o QuotedValues(tb_input.values) \o <<")", ")">>


-----------------------------------------------------------------------------
(* Properties of the chunks *)

RECURSIVE BytesOf(_)
\* the bytes the statements st take, terminators included
BytesOf(st) == IF st = <<>> THEN 0 ELSE Utf8Len(Head(st).text) + BytesOf(Tail(st))

\* C19: whatever lines were read, every chunk file, finalized or current,
\* holds statements of at most the byte budget in all, or holds exactly one
\* statement; every chunk file but the first holds at least one statement;
\* and self.current_chunk_size is the bytes of the statements of the current
\* chunk.
C19_ChunkWithinBudgetOrSingle ==
    /\ \A k \in DOMAIN files :
          /\ \/ BytesOf(StatementsOf(files[k].content)) <= chunk_size_bytes
             \/ Len(StatementsOf(files[k].content)) = 1
          /\ files[k].number # 1 => Len(StatementsOf(files[k].content)) >= 1
    /\ pc # "start" => current_chunk_size = BytesOf(StatementsOf(CurrentFile.content))

\* a chunk of two statements within the budget, then a chunk of one statement
\* over the budget, then a chunk after it
C19_Witness ==
    /\ pc = "done"
    /\ Len(files) = 3
    /\ Len(StatementsOf(files[1].content)) = 2
    /\ BytesOf(StatementsOf(files[1].content)) <= chunk_size_bytes
    /\ Len(StatementsOf(files[2].content)) = 1
    /\ BytesOf(StatementsOf(files[2].content)) > chunk_size_bytes
    /\ Len(StatementsOf(files[3].content)) = 1


-----------------------------------------------------------------------------
(* Properties of the order of the schema file *)

\* the comment statements of the schema file: where each begins
CommentStatements == LinesStarting(schema_output, <<"C", "O", "M", "M", "E", "N", "T", " ", "O", "N", " ">>)

\* the line of the schema file that begins at p
LineAt(p) == SubSeq(schema_output, p, LineEnd(schema_output, p))

\* the statements that begin at the indices of P, one line each, stand in
\* ascending order of their text
Ascending(P) == \A p, q \in P : p < q => StrLess(LineAt(p), LineAt(q))

\* every statement of P ends before every statement of Q begins
AllBefore(P, Q) == \A p \in P : \A q \in Q : LineEnd(schema_output, p) < q

\* the name between the k-th pair of double quotes at or after p
RECURSIVE QuotedName(_, _)
QuotedName(p, k) ==
    LET open == IndexOf(schema_output, "\"", p)
        close == IndexOf(schema_output, "\"", open + 1)
    IN  IF k = 1 THEN SubSeq(schema_output, open + 1, close - 1)
        ELSE QuotedName(close + 1, k - 1)

\* the input file as one text, back quotes removed
InputText == SelectSeq(Join(schema_input, <<>>), LAMBDA c : c # BackTick)

\* where the text of the input file declares the table name: the index of
\* its name after CREATE TABLE
TableDeclaredIn(text, name) ==
    Min({p \in DOMAIN text :
            /\ StartsAt(text, <<"T", "A", "B", "L", "E", " ">> \o name \o <<" ", "(">>, p)
               \/ StartsAt(text, <<"t", "a", "b", "l", "e", " ", "i", "f", " ", "n", "o", "t", " ", "e", "x", "i", "s", "t", "s", " ">> \o name \o <<" ", "(">>, p)}
          \cup {Len(text) + 1})

\* where the text of the input file declares the constraint name
ConstraintDeclaredIn(text, name) ==
    Min(Occurrences(text, <<"C", "O", "N", "S", "T", "R", "A", "I", "N", "T", " ">> \o name \o <<" ", "F", "O", "R", "E", "I", "G", "N", " ", "K", "E", "Y">>) \cup {Len(text) + 1})

\* the tables and the foreign keys of the schema file are declared in the
\* text of the input file, and stand in the order of their declarations
InEncounterOrder(text) ==
    /\ \A c, d \in CreateTables :
          /\ TableDeclaredIn(text, QuotedName(c, 1)) <= Len(text)
          /\ c < d => TableDeclaredIn(text, QuotedName(c, 1)) < TableDeclaredIn(text, QuotedName(d, 1))
    /\ \A f, g \in ForeignKeyStatements :
          /\ ConstraintDeclaredIn(text, QuotedName(f, 2)) <= Len(text)
          /\ f < g => ConstraintDeclaredIn(text, QuotedName(f, 2)) < ConstraintDeclaredIn(text, QuotedName(g, 2))

\* C15: the schema file holds its statements in the order sequences, tables,
\* indexes, foreign keys, comments; the sequences, the indexes and the
\* comments each in ascending order of their text; the tables and the foreign
\* keys in the order in which the input file declares them.
C15_SectionsInOrder ==
    schema_pc = "done" =>
        /\ AllBefore(SequenceDeclarations, CreateTables \cup IndexStatements \cup ForeignKeyStatements \cup CommentStatements)
        /\ \A c \in CreateTables :
              \A x \in IndexStatements \cup ForeignKeyStatements \cup CommentStatements :
                  CreateTableEnd(c) < x
        /\ AllBefore(IndexStatements, ForeignKeyStatements \cup CommentStatements)
        /\ AllBefore(ForeignKeyStatements, CommentStatements)
        /\ Ascending(SequenceDeclarations)
        /\ Ascending(IndexStatements)
        /\ Ascending(CommentStatements)
        /\ InEncounterOrder(InputText)

\* three tables declared in an order that is not the order of their names:
\* three sequences, three indexes, two foreign keys and two comments
C15_Witness ==
    /\ schema_pc = "done"
    /\ schema_input = BlockT2 \o BlockAB \o BlockT1
    /\ [n \in 1..3 |-> QuotedName(CHOOSE c \in CreateTables : Cardinality({d \in CreateTables : d < c}) = n - 1, 1)]
         = <<<<"t", "2">>, <<"a", "_", "b">>, <<"t", "1">>>>
    /\ {LineAt(p) : p \in SequenceDeclarations}
         = {<<"C", "R", "E", "A", "T", "E", " ", "S", "E", "Q", "U", "E", "N", "C", "E", " ", "a", "_", "b", "_", "c", "_", "s", "e", "q", ";">>, <<"C", "R", "E", "A", "T", "E", " ", "S", "E", "Q", "U", "E", "N", "C", "E", " ", "t", "1", "_", "i", "d", "_", "s", "e", "q", ";">>, <<"C", "R", "E", "A", "T", "E", " ", "S", "E", "Q", "U", "E", "N", "C", "E", " ", "t", "2", "_", "i", "d", "_", "s", "e", "q", ";">>}
    /\ Cardinality(IndexStatements) = 3
    /\ Cardinality(ForeignKeyStatements) = 2
    /\ Cardinality(CommentStatements) = 2

-----------------------------------------------------------------------------
(* Properties of the statement accumulator *)

\* the line begins with CREATE TABLE, blanks before it and letter case aside
BeginsCreateTable(line) ==
    LET l == Lower(line)
        p == SkipSpaces(l, 1)
    IN  /\ StartsAt(l, <<"c", "r", "e", "a", "t", "e">>, p)
        /\ p + 6 <= Len(l) /\ IsSpace(l[p + 6])
        /\ StartsAt(l, <<"t", "a", "b", "l", "e">>, SkipSpaces(l, p + 6))

\* the line ends with a semicolon, blanks after it aside
EndsWithSemicolon(line) ==
    \E p \in DOMAIN line : line[p] = ";" /\ \A q \in (p + 1)..Len(line) : IsSpace(line[q])

RECURSIVE StatementsFrom(_, _, _)
\* the CREATE TABLE statements of lines from line n on, each <<first line,
\* last line>>, when the statement open before line n began at line open (0:
\* none): a statement begins at a line that begins with CREATE TABLE and ends
\* at the first line, from that line on, that ends with a semicolon
StatementsFrom(lines, n, open) ==
    IF n > Len(lines) THEN <<>>
    ELSE LET first == IF open # 0 THEN open
                      ELSE IF BeginsCreateTable(lines[n]) THEN n ELSE 0
         IN  IF first = 0 THEN StatementsFrom(lines, n + 1, 0)
             ELSE IF EndsWithSemicolon(lines[n])
             THEN << <<first, n>> >> \o StatementsFrom(lines, n + 1, 0)
             ELSE StatementsFrom(lines, n + 1, first)

\* the name of the table a line declares: the word before the first " (",
\* back quotes removed
DeclaredName(line) ==
    LET t == SelectSeq(line, LAMBDA c : c # BackTick)
        p == Min(Occurrences(t, <<" ", "(">>) \cup {Len(t) + 1})
        b == Max({q \in 1..(p - 1) : t[q] = " "} \cup {0})
    IN  SubSeq(t, b + 1, p - 1)

\* the names of the tables of the schema file, in the order written
TablesWritten ==
    [n \in 1..Cardinality(CreateTables) |->
        QuotedName(CHOOSE c \in CreateTables : Cardinality({d \in CreateTables : d < c}) = n - 1, 1)]

\* the names of the tables the statements of the input file declare, in the
\* order of the statements
TablesDeclared(lines) ==
    [n \in DOMAIN StatementsFrom(lines, 1, 0) |->
        DeclaredName(lines[StatementsFrom(lines, 1, 0)[n][1]])]

\* C18: when the input file is exhausted, the tables converted are the tables
\* of the CREATE TABLE statements of the input file, each once, in the order
\* of the statements, a statement being the lines from one that begins with
\* CREATE TABLE to the first one, at or after it, that ends with a semicolon.
C18_EveryTableOnceInOrder ==
    schema_pc = "done" =>
        /\ TablesWritten = TablesDeclared(schema_input)
        /\ Len(pg_output) = Len(TablesWritten)

-----------------------------------------------------------------------------
(* Properties of the decoding of the lines *)

\* what the line l of the input file is to become: decoded by the first
\* decoding, or else by the second, and then converted; not decoded when
\* both fail
ExpectedLine ==
    [l \in DataLines |->
        IF DecodeUtf8(l) # None
        THEN [decoded |-> TRUE, converted |-> convert_insert_line(DecodeUtf8(l))]
        ELSE IF DecodeLatin1(l) # None
        THEN [decoded |-> TRUE, converted |-> convert_insert_line(DecodeLatin1(l))]
        ELSE [decoded |-> FALSE, converted |-> None]]

\* C14: a line of the input file that the first decoding (UTF-8) refuses is
\* decoded by the second (Latin-1) and processed like any line; a line both
\* refuse is skipped with one warning and leaves the chunk files, the chunk
\* number, the chunk size and the statement count as they were; the loop goes
\* on to the lines after it in either case.
C14_DecodeFallback ==
    [][ \A l \in DataLines :
          Reads(l) =>
             /\ pc' = "loop"
             /\ IF ExpectedLine[l].decoded
                THEN /\ decode_warnings' = decode_warnings
                     /\ IF ExpectedLine[l].converted = None
                        THEN UNCHANGED WriterState
                        ELSE /\ \/ RollsOverWith(ExpectedLine[l].converted)
                                \/ AppendsToCurrent(ExpectedLine[l].converted)
                             /\ total_inserts' = total_inserts + 1
                ELSE /\ decode_warnings' = decode_warnings + 1
                     /\ UNCHANGED WriterState ]_vars

\* a line that is no UTF-8 was written as decoded by Latin-1, and the line
\* after it was written too
C14_Witness ==
    /\ pc = "done"
    /\ chunk_size_bytes = 100
    /\ input = <<LineLatin1, LineShort>>
    /\ DecodeUtf8(LineLatin1) = None
    /\ decode_warnings = 0
    /\ StatementsOf(files[1].content)
         = << [kind |-> "stmt", text |-> <<"I", "N", "S", "E", "R", "T", " ", "I", "N", "T", "O", " ", "\"", "t", "\"", " ", "V", "A", "L", "U", "E", "S", " ", "(", "'">> \o <<EAcute, ATilde, CopyrightSign>> \o <<"'", ")", ";", "\n">>],
              [kind |-> "stmt", text |-> <<"I", "N", "S", "E", "R", "T", " ", "I", "N", "T", "O", " ", "t", " ", "V", "A", "L", "U", "E", "S", " ", "(", "1", ")", ";", "\n">>] >>
    /\ current_chunk_size = 61

-----------------------------------------------------------------------------
(* Properties of the handles of the chunk files *)

\* the chunk file numbered n was finalized: its footer is written, once and
\* last, and no handle of it is open
Finalized(n) ==
    /\ FooterOnceLast(ChunkFile(n).content)
    /\ output_handle.file = n => output_handle.closed

\* C20: while process_file reads the input, one chunk file is open, the
\* current one, and every chunk file opened before it was finalized once; when
\* process_file has ended, at the end of the input or by an OSError raised in
\* the loop, no chunk file is open and every chunk file, the last one
\* included, was finalized once.
C20_OneOpenAndFinalized ==
    /\ pc = "loop" =>
          /\ ~output_handle.closed
          /\ output_handle.file = chunk_number
          /\ \A k \in DOMAIN files : files[k].number # chunk_number => Finalized(files[k].number)
          /\ FooterAbsent(CurrentFile.content)
    /\ pc \in {"done", "failed"} =>
          /\ output_handle.closed
          /\ \A k \in DOMAIN files : Finalized(files[k].number)

-----------------------------------------------------------------------------
(* Properties of the unsigned modifier *)

\* the clause carries the unsigned modifier after its type, in any letter case
HasUnsigned(c) == StartsAtIgnoreCase(c.null, <<" ", "u", "n", "s", "i", "g", "n", "e", "d">>, 1)

\* the clause without its unsigned modifier
WithoutUnsigned(c) == [c EXCEPT !.null = SubSeq(c.null, 10, Len(c.null))]

\* C21: a column whose type carries the unsigned modifier, in upper or lower
\* case, gives the fragment that the same clause without the modifier gives,
\* with no more warnings, and the modifier does not appear in the fragment.
C21_UnsignedAnyCase ==
    (tb_result # TablePending /\ IsColumn /\ HasUnsigned(tb_input)) =>
        /\ HasFragmentOfC
        /\ FragmentOfC = convert_column_definition(ClauseText(WithoutUnsigned(tb_input)), <<"\"", "t", "\"">>).col_def
        /\ tb_result.warnings = 0
        /\ \A p \in DOMAIN FragmentOfC : ~StartsAtIgnoreCase(FragmentOfC, <<"u", "n", "s", "i", "g", "n", "e", "d">>, p)
====
